---- MODULE Spec2Model ----
(***************************************************************************)
(* o-agents: the run lifecycle of one agent process (spawn, result        *)
(* channel, race against exit, finalization with SIGTERM -> SIGKILL        *)
(* escalation) and the command concurrency pool.                           *)
(*                                                                         *)
(* The orchestrator is single threaded: one action of the model is one     *)
(* event-loop task (a timer, a child-process event, an HTTP request        *)
(* handler) together with all promise continuations it triggers, which     *)
(* run to completion before the next task.  The agent process, its         *)
(* descendants and the operating system act in between.                    *)
(*                                                                         *)
(* "The process exits", for the run, is the resolution of the exit         *)
(* promise: it is resolved by the child's 'close' event (process ended     *)
(* and its stdio pipes closed) or by its 'error' event (spawn failure).    *)
(* child.exitCode is set as soon as the process ends with an exit code;    *)
(* it stays null when the process is ended by a signal.                    *)
(***************************************************************************)
EXTENDS Naturals, Sequences, FiniteSets, TLC

\* ---------------------------------------------------------------- bounds
\* POST requests the agent may issue during one run
MaxPosts == 2
\* concurrent runCommandWithOutput calls
MaxCmds == 3
\* largest value passed to setCommandConcurrency
MaxLimit == 2
\* number of setCommandConcurrency calls that create a pool
MaxPools == 2
\* the inactivity timeout T of the specification, in clock ticks
InactivityTimeout == 1
\* how far the silence clock counts
MaxSilence == 2
\* runCommandWithOutput calls while spawn failures are studied
MaxSpawns == 2
\* concurrent runNonInteractiveAgent calls
MaxCalls == 3
\* depth and number of the nested logging contexts
MaxNesting == 2
\* workflow runs started by main
MaxRuns == 2
\* processes spawned with logging
MaxProcs == 2
\* lines logged with logger.info in and around the nested contexts
MaxLines == 3
\* label and output lines logged for the spawned processes
MaxProcLines == 4
\* calls of applyTemporaryAgentInstructions
MaxApplies == 2
\* calls of ensureTemporaryAgentInstructionsApplied
MaxEnsures == 1
\* signals sent to the orchestrator from outside
MaxSignals == 2
\* largest value passed to setAgentConcurrency
MaxAgentLimit == 2
\* number of setAgentConcurrency calls
MaxEpochs == 2
\* times the agent writes its response file
MaxFileWrites == 2
\* requests that one result server gets
MaxRequests == 2
\* tasks that ask for pool slots and locks
MaxTasks == 3
\* calls a task makes while it holds nothing
MaxOps == 1
\* calls of createWorktree
MaxWorktrees == 3
\* chunks of output one process writes to one stream
MaxChunks == 3
\* characters in one chunk
MaxChunkLen == 2

VARIABLES
  cfg,            \* the run's inputs: platform, options, process behaviour
  proc,           \* the agent process: running | exited | signaled | failed
  desc,           \* a descendant of the agent: none | running | dead
  descPipes,      \* the descendant inherited the agent's stdout/stderr pipes
  killed,         \* child.killed
  exitResolved,   \* the exit promise is resolved
  inflight,       \* POST requests sent and not yet handled, by kind
  posts,          \* POST requests issued so far
  listening,      \* the result server accepts requests
  resultPromise,  \* waitForResult: pending | resolved | rejected
  fileExists,     \* the response file exists (file mode)
  pc,             \* where runAgentLifecycle is suspended
  outcome,        \* none | result | premature | rejected
  plans,          \* plans handed to onTerminateProcessTree, in order
  sent,           \* signals issued by executeTerminationStrategy, in order
  hist,           \* what happened when (observations for the properties)
  silence,        \* clock ticks since the agent's last output
  pools,          \* limit of every command pool created so far
  commandPromisePool, \* index into pools of the current pool, 0: undefined
  cmd,            \* per runCommandWithOutput call: state, pool, command id
  queue,          \* calls waiting for a slot, in arrival order
  nextCommandId,  \* the command id counter
  epochLimit,     \* agentConcurrency after every setAgentConcurrency call, in order
  promisePools,   \* per agent tool: index into agentPools of its pool, 0: none
  agentPools,     \* every agent pool created so far: limit, slots in use, tool, epoch
  call,           \* per runNonInteractiveAgent call: state, tool, pool, epoch
  agentQueue,     \* calls waiting for a slot of their pool, in arrival order
  cli,            \* the orchestrator process: running | cleaning | exited
  scope,          \* logging contexts created by runWithContext, in order
  lproc,          \* processes spawned with logging: scope, id, line buffer
  mainLog,        \* lines appended to the main log file, in order
  extraLog,       \* per extra log path: the lines appended to it, in order
  console,        \* lines written to the console, in order
  files,          \* content of every instruction file of the cwd
  initialFiles,   \* content of every instruction file before any override
  overrideState,  \* overrideState of instructionOverride.ts
  caller,         \* the caller of apply / restore: its call and position in it
  restoring,      \* the restore under way: its position, 0 when none
  lineBuffer,     \* one line buffer: chunks written, buffer, emissions
  worktree,       \* createWorktree calls, the worktreeQueue chain, orders
  fileRun,        \* one file-mode run: the response file, reads, unlinks
  agentTask,      \* every agent call: how far its pooled task has got
  resultServer,   \* one result server: its promise and the requests it got
  waitState,      \* pool slots and locks: who holds them, who waits for them
  ensurer,        \* the call of ensureTemporaryAgentInstructionsApplied under way
  signals         \* the orchestrator's signal listeners, cleanup and end

agentVars == <<cfg, proc, desc, descPipes, killed, exitResolved, inflight, posts,
               listening, resultPromise, fileExists, pc, outcome, plans, sent, hist>>
clockVars == <<silence>>
cmdVars == <<pools, commandPromisePool, cmd, queue, nextCommandId>>
poolVars == <<epochLimit, promisePools, agentPools, call, agentQueue>>
cliVars == <<cli>>
logVars == <<scope, lproc, mainLog, extraLog, console>>
instrVars == <<files, initialFiles, overrideState, caller, restoring>>
moreVars == <<lineBuffer, worktree, fileRun, agentTask, resultServer, waitState, ensurer, signals>>
restVars == <<logVars, instrVars, moreVars>>
vars == <<agentVars, clockVars, cmdVars, poolVars, cliVars, restVars>>

Platforms == {"linux", "darwin", "win32"}
Kinds == {"valid", "invalid"}

\* ------------------------------------------------------------ the inputs
\* planner: which buildTerminationPlan the build links
\*   "terminate.ts": src/utils/terminate.ts, "run.ts": the copy inside run.ts
Configs ==
  { c \in [ platform : Platforms,
            planner : {"terminate.ts", "run.ts"},
            mockTerminateProcessTree : BOOLEAN,
            nodeEnv : {"test", "production"},
            ignoresTerm : BOOLEAN,
            responseMode : {"callback", "file"},
            spawned : BOOLEAN ] :
      /\ (c.planner = "run.ts" => c.platform = "darwin")
      /\ (~c.spawned => ~c.ignoresTerm /\ c.platform = "linux") }

\* child.pid: defined (1) when the process was started, else undefined (0)
ChildPid == IF cfg.spawned THEN 1 ELSE 0

\* processGroupId = detached ? child.pid : undefined; agents are spawned detached
ProcessGroupId == ChildPid

\* shouldMock in finalizeAgentProcess
ShouldMock == cfg.mockTerminateProcessTree /\ cfg.nodeEnv = "test"

\* what the operating system and the runtime know of the agent at one moment
Snap == [ proc |-> proc, killed |-> killed, exited |-> exitResolved ]
NoSnap == [ proc |-> "n/a", killed |-> FALSE, exited |-> FALSE ]

AgentInit ==
  /\ cfg \in Configs
  /\ proc = IF cfg.spawned THEN "running" ELSE "failed"
  /\ desc = "none"
  /\ descPipes = FALSE
  /\ killed = FALSE
  /\ exitResolved = FALSE
  /\ inflight = [k \in Kinds |-> 0]
  /\ posts = 0
  /\ listening = (cfg.responseMode = "callback")
  /\ resultPromise = "pending"
  /\ fileExists = FALSE
  /\ pc = IF cfg.responseMode = "callback" THEN "task" ELSE "pollCheck"
  /\ outcome = "none"
  /\ plans = <<>>
  /\ sent = <<>>
  /\ hist = [ posted |-> FALSE, accepted |-> "never",
              handled |-> [k \in Kinds |-> 0], accepts |-> 0, resultFrom |-> 0,
              atExit |-> "n/a",
              atFinalize |-> NoSnap, grace |-> "n/a", atTimeout |-> NoSnap,
              termWait |-> "n/a", atEscalation |-> NoSnap, finalizations |-> 0,
              deliveries |-> <<>>, thrown |-> FALSE ]

\* -------------------------------------------------- termination planner
\* collectProcessTreeMacOS(pid): the live descendants found by walking
\* pgrep -P from the root; a root that is gone has no children to list
collectProcessTreeMacOS ==
  IF proc = "running" /\ desc = "running" THEN {"d"} ELSE {}

Plan(mode, signal, pid, pgid, strategy, descendants) ==
  [ mode |-> mode, platform |-> cfg.platform, signal |-> signal, pid |-> pid,
    processGroupId |-> pgid, strategy |-> strategy, descendants |-> descendants ]

\* buildTerminationPlan of src/utils/terminate.ts: the group id is tried
\* before the macOS tree walk
buildTerminationPlanGroupFirst(mode, signal, pid, processGroupId) ==
  IF pid = 0 THEN Plan(mode, signal, 0, 0, "no-pid", {})
  ELSE IF cfg.platform = "win32" THEN Plan(mode, signal, pid, 0, "windows", {})
  ELSE IF processGroupId # 0
    THEN Plan(mode, signal, pid, processGroupId, "process-group", {})
  ELSE IF cfg.platform = "darwin"
    THEN Plan(mode, signal, pid, 0, "darwin-tree", collectProcessTreeMacOS)
  ELSE Plan(mode, signal, pid, 0, "child-only", {})

\* buildTerminationPlan of the copy in src/utils/run.ts: macOS is tried
\* before the group id
buildTerminationPlanDarwinFirst(mode, signal, pid, processGroupId) ==
  IF pid = 0 THEN Plan(mode, signal, 0, 0, "no-pid", {})
  ELSE IF cfg.platform = "win32" THEN Plan(mode, signal, pid, 0, "windows", {})
  ELSE IF cfg.platform = "darwin"
    THEN Plan(mode, signal, pid, 0, "darwin-tree", collectProcessTreeMacOS)
  ELSE IF processGroupId # 0
    THEN Plan(mode, signal, pid, processGroupId, "process-group", {})
  ELSE Plan(mode, signal, pid, 0, "child-only", {})

buildTerminationPlan(mode, signal, pid, processGroupId) ==
  IF cfg.planner = "terminate.ts"
    THEN buildTerminationPlanGroupFirst(mode, signal, pid, processGroupId)
    ELSE buildTerminationPlanDarwinFirst(mode, signal, pid, processGroupId)

\* the processes a signal can change: the agent, its descendant, child.killed
\* attempts: the deliveries tried so far and whether each succeeded;
\* thrown: an exception has left executeTerminationStrategy
World == [ proc |-> proc, desc |-> desc, killed |-> killed,
           attempts |-> <<>>, thrown |-> FALSE ]

Attempt(w, to, ok) == [w EXCEPT !.attempts = Append(@, [to |-> to, ok |-> ok])]

\* a delivered signal ends a process unless it is SIGTERM and ignored
Dies(signal) == signal = "SIGKILL" \/ ~cfg.ignoresTerm

\* child.kill(signal): delivered to a live child only, and then sets killed
ChildKill(w, signal) ==
  IF w.proc = "running"
    THEN [Attempt(w, "child", TRUE) EXCEPT
            !.proc = IF Dies(signal) THEN "signaled" ELSE "running",
            !.killed = TRUE]
    ELSE Attempt(w, "child", FALSE)

\* killProcessList(pids, signal): process.kill per pid, failures ignored
killProcessList(w, pids, signal) ==
  IF "d" \notin pids THEN w
  ELSE IF w.desc = "running"
    THEN [Attempt(w, "d", TRUE) EXCEPT !.desc = IF Dies(signal) THEN "dead" ELSE @]
    ELSE Attempt(w, "d", FALSE)   \* process.kill threw: caught, ignored

\* process.kill(-pgid, signal): every live member of the group gets the signal
GroupKill(w, signal) ==
  [Attempt(w, "group", TRUE) EXCEPT !.proc = IF @ = "running" /\ Dies(signal) THEN "signaled" ELSE @,
            !.desc = IF @ = "running" /\ Dies(signal) THEN "dead" ELSE @]

\* taskkill /PID pid /T /F: the tree below a live root is ended
terminateWindowsProcessTree(w) ==
  IF w.proc = "running"
    THEN [w EXCEPT !.proc = "signaled",
                   !.desc = IF @ = "running" THEN "dead" ELSE @]
    ELSE w

\* variant: the group branch has no try/catch around process.kill, which
\* throws when the group has no member left
executeTerminationStrategyUncaught(plan, w) ==
  CASE plan.strategy = "windows" ->
         IF plan.pid # 0 THEN terminateWindowsProcessTree(w) ELSE w
    [] plan.strategy = "darwin-tree" ->
         IF plan.pid # 0
           THEN ChildKill(killProcessList(w, plan.descendants, plan.signal), plan.signal)
           ELSE w
    [] plan.strategy = "process-group" ->
         IF plan.processGroupId # 0
           THEN IF w.proc = "running" \/ w.desc = "running"
                  THEN GroupKill(w, plan.signal)
                  ELSE [Attempt(w, "group", FALSE) EXCEPT !.thrown = TRUE]
           ELSE ChildKill(w, plan.signal)
    [] OTHER -> ChildKill(w, plan.signal)

\* the strategy of the plan is carried out; a process.kill of the group
\* that throws is caught and the direct child is signalled instead
executeTerminationStrategy(plan, w) ==
  CASE plan.strategy = "windows" ->
         IF plan.pid # 0 THEN terminateWindowsProcessTree(w) ELSE w
    [] plan.strategy = "darwin-tree" ->
         IF plan.pid # 0
           THEN ChildKill(killProcessList(w, plan.descendants, plan.signal), plan.signal)
           ELSE w
    [] plan.strategy = "process-group" ->
         IF plan.processGroupId # 0
           THEN IF w.proc = "running" \/ w.desc = "running"
                  THEN GroupKill(w, plan.signal)
                  ELSE ChildKill(Attempt(w, "group", FALSE), plan.signal)
           ELSE ChildKill(w, plan.signal)
    [] OTHER -> ChildKill(w, plan.signal)

\* a descendant listed in the plan may have ended by the time it is
\* signalled: the choices of `gone`
Gone(signal) ==
  IF "d" \in buildTerminationPlan("real", signal, ChildPid, ProcessGroupId).descendants
    THEN BOOLEAN ELSE {FALSE}

\* the world after the plan for the signal was built and carried out
Executed(signal, gone) ==
  executeTerminationStrategy(
    buildTerminationPlan("real", signal, ChildPid, ProcessGroupId),
    IF gone THEN [World EXCEPT !.desc = "dead"] ELSE World)

\* what the caller of finalizeAgentProcess can tell of the deliveries
Delivered(h, signal, gone) ==
  [h EXCEPT !.deliveries = @ \o Executed(signal, gone).attempts,
            !.thrown = @ \/ Executed(signal, gone).thrown]

\* variant: the signal is sent without a plan being recorded
signalProcessUnrecorded(signal, gone) ==
  LET w == Executed(signal, gone)
  IN /\ plans' = plans
     /\ sent' = Append(sent, signal)
     /\ proc' = w.proc
     /\ desc' = w.desc
     /\ killed' = w.killed

\* signalProcess(signal) inside terminateProcessTree: build a fresh plan,
\* record it, execute it
signalProcess(signal, gone) ==
  LET plan == buildTerminationPlan("real", signal, ChildPid, ProcessGroupId)
      w == Executed(signal, gone)
  IN /\ plans' = Append(plans, plan)
     /\ sent' = Append(sent, signal)
     /\ proc' = w.proc
     /\ desc' = w.desc
     /\ killed' = w.killed

\* variant: mock mode carries the plan out as a real termination does
recordMockTerminationCarriedOut == signalProcess("SIGTERM", FALSE)

\* recordMockTermination: the plan is recorded, nothing is signalled
recordMockTermination ==
  /\ plans' = Append(plans, buildTerminationPlan("mock", "SIGTERM", ChildPid, ProcessGroupId))
  /\ UNCHANGED <<sent, proc, desc, killed>>

\* variant: SIGTERM is sent a second time instead of SIGKILL
EscalationSignalRepeated == "SIGTERM"

\* the signal sent when SIGTERM did not end the process within the window
EscalationSignal == "SIGKILL"

\* variant: the check of exitCode and killed is left out
NeverTerminated == FALSE

\* child.exitCode !== null || child.killed
AlreadyTerminated == proc = "exited" \/ killed

\* variant: finalizeAgentProcess returns without awaiting the exit promise
AwaitExitSkipped(exited) == "done"

\* the last statement of finalizeAgentProcess, await exit: finished at once
\* when the promise is resolved, suspended otherwise
AwaitExit(exited) == IF exited THEN "done" ELSE "awaitExit"

\* finalizeAgentProcess up to its first suspension, given whether the exit
\* promise is resolved: an exit wins the grace race against any timer
FinalizeEntry(exited) ==
  IF AlreadyTerminated THEN AwaitExit(exited)
  ELSE IF exited THEN "done"
  ELSE "grace"

\* ------------------------------------------------------ the race of a run
\* Promise.race settles with the first promise to settle; later ones are ignored
OutcomeOnResult == IF outcome = "none" THEN "result" ELSE outcome
OutcomeOnReject == IF outcome = "none" THEN "rejected" ELSE outcome

\* variant: the exit branch of the race does not throw
OutcomeOnExitSilent == outcome

\* variant: the exit branch wins the race whenever it settles
OutcomeOnExitLast == "premature"

\* exit.then(() => { throw ... }) as a branch of the race
OutcomeOnExit == IF outcome = "none" THEN "premature" ELSE outcome

\* variant: the settling of the task is not remembered, every later event
\* takes the path out of the task again
TaskAlwaysPending == TRUE

\* runAgentLifecycle is still inside "await task(exit)"
TaskPending == pc \in {"task", "pollCheck", "pollWait"}

\* runAgentLifecycle leaves the try/catch and calls finalizeAgentProcess
EnterFinalize(h, exited) ==
  [h EXCEPT !.atFinalize = [Snap EXCEPT !.exited = exited],
            !.finalizations = @ + 1]

AgentFrame == UNCHANGED <<clockVars, cmdVars, poolVars, cliVars, restVars>>

\* ------------------------------------------------- the agent and the world
\* the agent sends a POST to the callback URL
AgentPost(k) ==
  /\ cfg.responseMode = "callback"
  /\ proc = "running"
  /\ listening
  /\ posts < MaxPosts
  /\ posts' = posts + 1
  /\ inflight' = [inflight EXCEPT ![k] = @ + 1]
  /\ hist' = [hist EXCEPT !.posted = @ \/ k = "valid"]
  /\ UNCHANGED <<cfg, proc, desc, descPipes, killed, exitResolved, listening,
                 resultPromise, fileExists, pc, outcome, plans, sent>>
  /\ AgentFrame

\* the agent writes its response file
AgentWriteFile ==
  /\ cfg.responseMode = "file"
  /\ proc = "running"
  /\ ~fileExists
  /\ fileExists' = TRUE
  /\ UNCHANGED <<cfg, proc, desc, descPipes, killed, exitResolved, inflight, posts,
                 listening, resultPromise, pc, outcome, plans, sent, hist>>
  /\ AgentFrame

\* the agent starts a process of its own, which may inherit the stdio pipes
AgentSpawnDescendant(holdsPipes) ==
  /\ proc = "running"
  /\ desc = "none"
  /\ desc' = "running"
  /\ descPipes' = holdsPipes
  /\ UNCHANGED <<cfg, proc, killed, exitResolved, inflight, posts, listening,
                 resultPromise, fileExists, pc, outcome, plans, sent, hist>>
  /\ AgentFrame

\* the agent ends with an exit code: child.exitCode is set
AgentExit ==
  /\ proc = "running"
  /\ proc' = "exited"
  /\ UNCHANGED <<cfg, desc, descPipes, killed, exitResolved, inflight, posts, listening,
                 resultPromise, fileExists, pc, outcome, plans, sent, hist>>
  /\ AgentFrame

\* the agent is ended by a signal nobody in this program sent (kill -9, OOM)
AgentKilledOutOfBand ==
  /\ proc = "running"
  /\ proc' = "signaled"
  /\ UNCHANGED <<cfg, desc, descPipes, killed, exitResolved, inflight, posts, listening,
                 resultPromise, fileExists, pc, outcome, plans, sent, hist>>
  /\ AgentFrame

DescExit ==
  /\ desc = "running"
  /\ desc' = "dead"
  /\ UNCHANGED <<cfg, proc, descPipes, killed, exitResolved, inflight, posts, listening,
                 resultPromise, fileExists, pc, outcome, plans, sent, hist>>
  /\ AgentFrame

\* --------------------------------------------------------- the orchestrator
\* the exit promise resolves: every continuation waiting on it runs
ResolveExit ==
  LET h1 == [hist EXCEPT !.atExit = resultPromise]
      raced == IF cfg.responseMode = "callback" THEN OutcomeOnExit ELSE outcome
  IN
  /\ ~exitResolved
  /\ exitResolved' = TRUE
  /\ IF pc = "pollCheck"
       THEN \* the file check is under way; its continuation is PollAccess
            /\ hist' = h1
            /\ UNCHANGED <<pc, outcome>>
     ELSE IF TaskPending
       THEN \* the task throws the premature-exit error; finalization starts
            /\ outcome' = OutcomeOnExit
            /\ pc' = FinalizeEntry(TRUE)
            /\ hist' = EnterFinalize(h1, TRUE)
     ELSE /\ outcome' = raced
          /\ pc' = CASE pc = "grace" -> IF ShouldMock THEN "done" ELSE AwaitExit(TRUE)
                     [] pc = "termWait" -> AwaitExit(TRUE)
                     [] pc = "awaitExit" -> "done"
                     [] OTHER -> pc
          /\ hist' = CASE pc = "grace" -> [h1 EXCEPT !.grace = "exited"]
                       [] pc = "termWait" -> [h1 EXCEPT !.termWait = "exited"]
                       [] OTHER -> h1
  /\ UNCHANGED <<cfg, proc, desc, descPipes, killed, inflight, posts, listening,
                 resultPromise, fileExists, plans, sent>>
  /\ AgentFrame

\* child 'close': the process has ended and both stdio pipes are closed
OnClose ==
  /\ proc \in {"exited", "signaled"}
  /\ ~(desc = "running" /\ descPipes)
  /\ ResolveExit

\* a failed spawn emits 'error' on the next tick, before any timer or I/O event
SpawnErrorPending == proc = "failed" /\ ~exitResolved

\* child 'error': the process could not be started
OnSpawnError ==
  /\ proc = "failed"
  /\ ResolveExit

\* the result promise settles while the race is open: the task returns or throws
SettleResult(settled, h) ==
  IF resultPromise = "pending" /\ TaskPending
    THEN /\ outcome' = IF settled = "resolved" THEN OutcomeOnResult ELSE OutcomeOnReject
         /\ pc' = FinalizeEntry(exitResolved)
         /\ hist' = EnterFinalize(h, exitResolved)
    ELSE /\ hist' = h
         /\ UNCHANGED <<pc, outcome>>

\* variant: the body is neither parsed nor checked against the schema
ValidatesAnything(k) == TRUE

\* parseResultBody reports no error and schema.safeParse succeeds
Validates(k) == k = "valid"

\* request 'end' handler of the result server; the caller closes the server
\* as soon as the run has returned
HandlePost(k) ==
  LET h1 == [hist EXCEPT !.handled[k] = @ + 1] IN
  /\ pc # "done"
  /\ inflight[k] > 0
  /\ inflight' = [inflight EXCEPT ![k] = @ - 1]
  /\ IF ~Validates(k)
       THEN \* 400, the result promise is left alone
            /\ hist' = h1
            /\ UNCHANGED <<listening, resultPromise, pc, outcome>>
       ELSE \* 200 "ok", resolveResult, server.close
            /\ resultPromise' = IF resultPromise = "pending" THEN "resolved" ELSE resultPromise
            /\ listening' = FALSE
            /\ SettleResult("resolved",
                 [h1 EXCEPT !.accepts = @ + 1,
                            !.resultFrom = IF resultPromise = "pending"
                                             THEN h1.accepts + 1 ELSE @,
                            !.accepted =
                               IF @ # "never" THEN @
                               ELSE IF proc = "running" THEN "beforeExit" ELSE "afterExit"])
  /\ UNCHANGED <<cfg, proc, desc, descPipes, killed, exitResolved, posts, fileExists,
                 plans, sent>>
  /\ AgentFrame

\* request 'error' handler: the stream of a request breaks; 400, rejectResult
RequestError(k) ==
  /\ pc # "done"
  /\ inflight[k] > 0
  /\ inflight' = [inflight EXCEPT ![k] = @ - 1]
  /\ resultPromise' = IF resultPromise = "pending" THEN "rejected" ELSE resultPromise
  /\ SettleResult("rejected", hist)
  /\ UNCHANGED <<cfg, proc, desc, descPipes, killed, exitResolved, posts, listening,
                 fileExists, plans, sent>>
  /\ AgentFrame

\* server 'error' handler: rejectResult
ServerError ==
  /\ ~SpawnErrorPending
  /\ pc # "done"
  /\ cfg.responseMode = "callback"
  /\ listening
  /\ resultPromise' = IF resultPromise = "pending" THEN "rejected" ELSE resultPromise
  /\ SettleResult("rejected", hist)
  /\ UNCHANGED <<cfg, proc, desc, descPipes, killed, exitResolved, inflight, posts,
                 listening, fileExists, plans, sent>>
  /\ AgentFrame

\* waitForFileExists: the file check completes, then the race of exit and
\* poll timer starts; a resolved exit promise wins it at once
PollAccess ==
  /\ ~SpawnErrorPending
  /\ pc = "pollCheck"
  /\ IF fileExists
       THEN /\ outcome' = "result"
            /\ pc' = FinalizeEntry(exitResolved)
            /\ hist' = EnterFinalize(hist, exitResolved)
     ELSE IF exitResolved
       THEN /\ outcome' = "premature"
            /\ pc' = FinalizeEntry(TRUE)
            /\ hist' = EnterFinalize(hist, TRUE)
     ELSE /\ pc' = "pollWait"
          /\ UNCHANGED <<outcome, hist>>
  /\ UNCHANGED <<cfg, proc, desc, descPipes, killed, exitResolved, inflight, posts,
                 listening, resultPromise, fileExists, plans, sent>>
  /\ AgentFrame

\* waitForFileExists: the poll interval elapses before the process exits
PollTimer ==
  /\ pc = "pollWait"
  /\ pc' = "pollCheck"
  /\ UNCHANGED <<cfg, proc, desc, descPipes, killed, exitResolved, inflight, posts,
                 listening, resultPromise, fileExists, outcome, plans, sent, hist>>
  /\ AgentFrame

\* finalizeAgentProcess: the grace period elapses before the exit promise
\* resolves; mock mode records a plan and returns, otherwise
\* terminateProcessTree starts
GraceTimer ==
  /\ pc = "grace"
  /\ LET h == [hist EXCEPT !.grace = "timeout", !.atTimeout = Snap] IN
     IF ShouldMock
       THEN /\ recordMockTermination
            /\ pc' = "done"
            /\ hist' = h
     ELSE IF AlreadyTerminated
       THEN /\ pc' = AwaitExit(exitResolved)
            /\ hist' = h
            /\ UNCHANGED <<plans, sent, proc, desc, killed>>
     ELSE \E gone \in Gone("SIGTERM") :
            /\ signalProcess("SIGTERM", gone)
            /\ pc' = "termWait"
            /\ hist' = Delivered(h, "SIGTERM", gone)
  /\ UNCHANGED <<cfg, descPipes, exitResolved, inflight, posts, listening,
                 resultPromise, fileExists, outcome>>
  /\ AgentFrame

\* terminateProcessTree: the wait after SIGTERM elapses before the exit
\* promise resolves
TermWaitTimer ==
  /\ pc = "termWait"
  /\ \E gone \in Gone(EscalationSignal) :
       /\ signalProcess(EscalationSignal, gone)
       /\ hist' = Delivered([hist EXCEPT !.termWait = "timeout",
                                         !.atEscalation = Snap],
                            EscalationSignal, gone)
  /\ pc' = AwaitExit(exitResolved)
  /\ UNCHANGED <<cfg, descPipes, exitResolved, inflight, posts, listening,
                 resultPromise, fileExists, outcome>>
  /\ AgentFrame

AgentNext ==
  \/ \E k \in Kinds : AgentPost(k)
  \/ AgentWriteFile
  \/ \E p \in BOOLEAN : AgentSpawnDescendant(p)
  \/ AgentExit
  \/ AgentKilledOutOfBand
  \/ DescExit
  \/ OnClose
  \/ OnSpawnError
  \/ \E k \in Kinds : HandlePost(k)
  \/ \E k \in Kinds : RequestError(k)
  \/ ServerError
  \/ PollAccess
  \/ PollTimer
  \/ GraceTimer
  \/ TermWaitTimer

\* the parts of the state the run of an agent does not touch
IdleClock == silence = 0
IdleCmds ==
  /\ pools = <<>>
  /\ commandPromisePool = 0
  /\ cmd = [c \in 1..MaxCmds |->
              [state |-> "idle", pool |-> 0, id |-> 0, starts |-> TRUE,
               throwOnError |-> FALSE, code |-> <<>>, stderr |-> <<>>,
               combined |-> <<>>, result |-> "none"]]
  /\ queue = <<>>
  /\ nextCommandId = 0

Tools == {"codex-cli", "claude-code"}

IdlePools ==
  /\ epochLimit = <<1>>
  /\ promisePools = [t \in Tools |-> 0]
  /\ agentPools = <<>>
  /\ call = [c \in 1..MaxCalls |-> [state |-> "idle", tool |-> "codex-cli",
                                     pool |-> 0, epoch |-> 0]]
  /\ agentQueue = <<>>
IdleCli == cli = "running"

\* the extra log paths: run n logs to the workflow log of number n
LogPaths == 1..(MaxNesting + MaxRuns + MaxProcs)

IdleLog ==
  /\ scope = <<>>
  /\ lproc = <<>>
  /\ mainLog = <<>>
  /\ extraLog = [p \in LogPaths |-> <<>>]
  /\ console = <<>>

\* INSTRUCTION_FILENAMES, in the order the loops visit them
InstructionFilenames == <<"AGENTS.md", "CLAUDE.md", "GEMINI.md">>
Files == { InstructionFilenames[i] : i \in DOMAIN InstructionFilenames }

NoOverride ==
  [ active |-> FALSE, originalContents |-> [f \in Files |-> "none"],
    timeoutId |-> "none", restoring |-> FALSE, replacement |-> "none" ]

IdleCaller == [ op |-> "idle", i |-> 0, existing |-> "none", applies |-> 0,
                restores |-> 0, last |-> "none" ]

IdleInstr ==
  /\ files = [f \in Files |-> "missing"]
  /\ initialFiles = files
  /\ overrideState = NoOverride
  /\ caller = IdleCaller
  /\ restoring = 0

\* let worktreeQueue = Promise.resolve(): no createWorktree call yet
NoWorktrees ==
  [ call |-> [c \in 1..MaxWorktrees |-> [state |-> "idle", prev |-> 0]],
    queue |-> 0, requested |-> <<>>, started |-> <<>> ]

\* a file-mode run before its agent command is started
NoFileRun ==
  [ pc |-> "idle", schema |-> FALSE, written |-> <<>>, file |-> "missing",
    code |-> <<>>, read |-> <<>>, unlinks |-> <<>>, outcome |-> "none" ]

\* createLineBuffer: let buffer = ""
NewLineBuffer == [ chunks |-> <<>>, buffer |-> <<>>, emitted |-> <<>>, closed |-> FALSE ]

\* no task has run a step: no result server, no agent process
NoAgentTasks ==
  [c \in 1..MaxCalls |-> [phase |-> "start", server |-> "none", agent |-> "none",
                         failed |-> FALSE]]

\* no server has been started; no request has arrived
NoResultServer ==
  [ started |-> FALSE, schema |-> FALSE, promise |-> "pending", serverErrors |-> 0,
    reqs |-> [r \in 1..MaxRequests |->
                [state |-> "none", method |-> "POST", path |-> "/agent-result",
                 contentType |-> "text/plain", body |-> "text",
                 status |-> 0, errored |-> FALSE]] ]

\* the four things a task can wait for: a slot of an agent pool, a slot of
\* the command pool, the init-command lock, the worktree lock
Resources == {"agent", "command", "init", "worktree"}

\* no pool is set up yet, no task holds or awaits anything
NoWaits ==
  [ configured |-> FALSE,
    limit |-> [r \in Resources |-> 1],
    task |-> [t \in 1..MaxTasks |-> [held |-> <<>>, waiting |-> "none", ops |-> 0]],
    queue |-> [r \in Resources |-> <<>>] ]

\* no call of ensureTemporaryAgentInstructionsApplied has been made
IdleEnsurer == [ op |-> "idle", i |-> 0, calls |-> 0, threw |-> FALSE ]

CliSignals == {"SIGINT", "SIGTERM"}

\* main has called installSignalHandlers: runCleanup listens once for each
\* signal; no override is active, no worktree exists
NoSignals ==
  [ alive |-> "alive",
    listeners |-> [g \in CliSignals |-> <<"runCleanup">>],
    handlersRegistered |-> FALSE,
    cleanupStarted |-> FALSE, cleanups |-> 0, cleanup |-> "none",
    worktrees |-> 0, left |-> 0,
    restores |-> [g \in CliSignals |-> "none"],
    received |-> 0 ]

IdleMore ==
  /\ lineBuffer = NewLineBuffer
  /\ worktree = NoWorktrees
  /\ fileRun = NoFileRun
  /\ agentTask = NoAgentTasks
  /\ resultServer = NoResultServer
  /\ waitState = NoWaits
  /\ ensurer = IdleEnsurer
  /\ signals = NoSignals

IdleRest == IdleLog /\ IdleInstr /\ IdleMore

Init == AgentInit /\ IdleClock /\ IdleCmds /\ IdlePools /\ IdleCli /\ IdleRest
Next == AgentNext
Spec == Init /\ [][Next]_vars

\* the orchestrator's own steps are taken when they can be: a timer that is
\* armed fires, an event that is queued is handled.  Nothing is assumed of
\* the agent, its descendants or the network.
Fairness ==
  /\ WF_vars(OnClose)
  /\ WF_vars(OnSpawnError)
  /\ WF_vars(\E k \in Kinds : HandlePost(k))
  /\ WF_vars(PollAccess)
  /\ WF_vars(PollTimer)
  /\ WF_vars(GraceTimer)
  /\ WF_vars(TermWaitTimer)

FairSpec == Init /\ [][Next]_vars /\ Fairness

\* ------------------------------------------------------------ properties
\* the run was started by runAgentUntilResult
Callback == cfg.responseMode = "callback"
\* runAgentLifecycle has returned its result or thrown its failure
Returned == pc = "done"

\* C1: a run whose agent sent a valid POST before it exited returns that
\* result when it returns, and in particular does not throw the
\* premature-exit error
C1_PostedResultIsReturned ==
  (Returned /\ hist.posted) => outcome = "result"

\* C2 (as stated): a run whose exit promise resolved with no valid result
\* delivered (no accepted POST, no response file) has thrown the
\* premature-exit error when it returns
C2_ExitWithoutResultThrowsPremature ==
  (Returned /\ exitResolved /\ hist.atExit # "resolved" /\ ~fileExists)
    => outcome = "premature"

\* C2 (amended): when the exit promise resolves with no valid result
\* delivered, the run never returns a result; it throws the premature-exit
\* error if the result promise was still pending then (in file mode: once the
\* file check under way is done), and the earlier rejection of the result
\* promise otherwise
C2_ExitWithoutResultThrows ==
  (exitResolved /\ hist.atExit # "resolved" /\ ~fileExists) =>
    /\ outcome # "result"
    /\ hist.atExit = "rejected" => outcome = "rejected"
    /\ hist.atExit = "pending" =>
         \/ outcome = "premature" /\ Returned
         \/ ~Callback /\ outcome = "none" /\ pc = "pollCheck"

C2_Witness ==
  Returned /\ exitResolved /\ hist.atExit = "pending" /\ outcome = "premature"
    /\ hist.accepted = "never" /\ ~fileExists /\ proc = "exited"

\* C3: once SIGTERM is sent and the wait for the exit has begun, either the
\* exit promise resolves or SIGKILL is sent
C3_SigkillFollowsSigterm ==
  (pc = "termWait") ~> (exitResolved \/ \E i \in DOMAIN sent : sent[i] = "SIGKILL")

C3_Witness ==
  hist.termWait = "timeout" /\ sent = <<"SIGTERM", "SIGKILL">> /\ ~exitResolved

\* C4 (as stated): finalizeAgentProcess has awaited the exit promise whenever
\* the run returns
C4_ExitAwaitedOnEveryPath ==
  Returned => exitResolved

\* C4 (amended): finalizeAgentProcess has awaited the exit promise whenever
\* the run returns, except in mock mode after the grace period elapsed, where
\* it returns as soon as the mock plan is recorded
C4_ExitAwaitedUnlessMocked ==
  Returned =>
    \/ exitResolved
    \/ /\ ShouldMock
       /\ hist.grace = "timeout"
       /\ Len(plans) = 1 /\ plans[1].mode = "mock" /\ sent = <<>>

C4_Witness ==
  Returned /\ exitResolved /\ ~ShouldMock /\ hist.grace = "timeout"
    /\ hist.atTimeout.proc = "running"

\* C5: when a real (not mocked) run returns, neither the agent nor a
\* descendant of it is still running
C5_NoProcessLeftRunning ==
  (Returned /\ ~ShouldMock) => (proc # "running" /\ desc # "running")

\* C6: every run eventually returns or throws
C6_RunEventuallyReturns ==
  <>Returned

\* the process was no longer alive when the observation was taken
Ended(snap) == snap.proc \in {"exited", "signaled", "failed"}
\* no plan was handed to onTerminateProcessTree and no signal was issued
Untouched == plans = <<>> /\ sent = <<>>

\* C7 (as stated): when the process had already ended at the call of
\* finalizeAgentProcess, or ended before the grace period was over, no plan
\* is recorded and no signal is sent
C7_NoSignalForEndedProcess ==
  (\/ Ended(hist.atFinalize)
   \/ hist.grace = "exited"
   \/ Ended(hist.atTimeout)) => Untouched

\* C7 (amended): when, at the call of finalizeAgentProcess, child.exitCode is
\* set, child.killed is true or the exit promise is resolved, or when the
\* exit promise resolves before the grace period is over, no plan is recorded
\* and no signal is sent; outside mock mode the same holds when child.exitCode
\* is set at the end of the grace period (terminateProcessTree does nothing)
C7_NoSignalForExitedProcess ==
  (\/ hist.atFinalize.proc = "exited"
   \/ hist.atFinalize.killed
   \/ hist.atFinalize.exited
   \/ hist.grace = "exited"
   \/ (~ShouldMock /\ hist.atTimeout.proc = "exited")) => Untouched

C7_Witness ==
  Returned /\ ~ShouldMock /\ hist.grace = "timeout"
    /\ hist.atTimeout.proc = "exited" /\ Untouched

Tick ==
  /\ pc # "done"
  /\ silence < MaxSilence
  /\ silence' = silence + 1
  /\ UNCHANGED <<agentVars, cmdVars, poolVars, cliVars, restVars>>

\* child.stdout / child.stderr 'data': the chunk is appended to the output
\* and handed to the line buffer; nothing else in the run reacts to it
Output ==
  /\ pc # "done"
  /\ proc = "running" \/ (desc = "running" /\ descPipes)
  /\ silence' = 0
  /\ UNCHANGED <<agentVars, cmdVars, poolVars, cliVars, restVars>>

SilenceNext == AgentNext \/ Tick \/ Output
SilenceSpec == Init /\ [][SilenceNext]_vars

\* C9: a run is not left waiting for its agent once the agent has been silent
\* for longer than the inactivity timeout: it has failed with the inactivity
\* error by then
C9_SilentRunFails ==
  silence > InactivityTimeout => ~TaskPending

\* ------------------------------------------------------- the command pool
Calls == 1..MaxCmds

\* the calls a pool has started and not yet seen finish
RunningIn(g) == { c \in Calls : cmd[c].state = "running" /\ cmd[c].pool = g }

\* variant: the pool is never consulted
UsesPoolNever(g) == FALSE

\* runCommandWithOutput goes through the pool when one is set
UsesPool(g) == g # 0

\* PromisePool.runAndWaitForReturnValue starts the task when a slot is free
PoolAdmits(g) == Cardinality(RunningIn(g)) < pools[g]

\* setCommandConcurrency(value): a number replaces the pool by a new one
setCommandConcurrency(value) ==
  /\ Len(pools) < MaxPools
  /\ pools' = Append(pools, value)
  /\ commandPromisePool' = Len(pools) + 1
  /\ UNCHANGED <<cmd, queue, nextCommandId>>
  /\ UNCHANGED <<agentVars, clockVars, poolVars, cliVars, restVars>>

\* setCommandConcurrency(undefined): no pool
clearCommandConcurrency ==
  /\ commandPromisePool # 0
  /\ commandPromisePool' = 0
  /\ UNCHANGED <<pools, cmd, queue, nextCommandId>>
  /\ UNCHANGED <<agentVars, clockVars, poolVars, cliVars, restVars>>

\* runCommandWithOutputImmediate up to "await exit": the command is spawned
\* under the next command label
Spawned(f, c) ==
  [f EXCEPT ![c].state = "running", ![c].id = nextCommandId + 1]

\* a call of runCommandWithOutput: options.throwOnError, and whether the
\* command can be started when its turn comes. The calls are numbered in the
\* order they are made.
runCommandWithOutput(c, starts, throwOnError) ==
  LET g == commandPromisePool
      called == [cmd EXCEPT ![c].pool = g, ![c].starts = starts,
                            ![c].throwOnError = throwOnError]
  IN
  /\ cmd[c].state = "idle"
  /\ \A d \in Calls : d < c => cmd[d].state # "idle"
  /\ IF UsesPool(g) /\ ~PoolAdmits(g)
       THEN /\ cmd' = [called EXCEPT ![c].state = "queued"]
            /\ queue' = Append(queue, c)
            /\ UNCHANGED nextCommandId
       ELSE /\ cmd' = Spawned(called, c)
            /\ nextCommandId' = nextCommandId + 1
            /\ UNCHANGED queue
  /\ UNCHANGED <<pools, commandPromisePool>>
  /\ UNCHANGED <<agentVars, clockVars, poolVars, cliVars, restVars>>

\* the first call waiting for a slot of pool g, 0 when there is none
FirstWaiting(g) ==
  LET waiting == { i \in DOMAIN queue : cmd[queue[i]].pool = g } IN
  IF waiting = {} THEN 0
  ELSE queue[CHOOSE i \in waiting : \A j \in waiting : i <= j]

Without(q, c) == SelectSeq(q, LAMBDA x : x # c)

\* the code of a 'close' event: <<n>> for a number, <<>> for null (the
\* process was ended by a signal)
ExitCodes == { <<0>>, <<1>>, <<>> }

\* the code the 'error' handler resolves the exit promise with
SyntheticExitCode == 1

FailedToStart == "Failed to start process"

\* variant: the 'error' handler leaves the captured output alone
OnErrorOutputSilent(out) == out

\* the 'error' handler appends its message to a captured output
OnErrorOutput(out) == Append(out, FailedToStart)

\* runCommandWithOutputImmediate after "await exit": throw on a non-zero code
\* when asked to, else return the output with exitCode = code ?? 0
CallResult(code, throwOnError) ==
  IF code # <<0>> /\ throwOnError THEN "threw"
  ELSE IF code = <<>> THEN "exitCode 0"
  ELSE IF code[1] = 0 THEN "exitCode 0" ELSE "exitCode 1"

\* the exit promise of command c resolves with code, the call settles, its
\* slot is released and the pool starts the call that waited longest
ExitResolved(f, c, code) ==
  LET g == cmd[c].pool
      n == IF UsesPool(g) THEN FirstWaiting(g) ELSE 0
      finished == [f EXCEPT ![c].state = "finished", ![c].code = code,
                            ![c].result = CallResult(code, cmd[c].throwOnError)]
  IN
  /\ IF n = 0
       THEN /\ cmd' = finished
            /\ UNCHANGED <<queue, nextCommandId>>
       ELSE /\ cmd' = Spawned(finished, n)
            /\ queue' = Without(queue, n)
            /\ nextCommandId' = nextCommandId + 1
  /\ UNCHANGED <<pools, commandPromisePool>>
  /\ UNCHANGED <<agentVars, clockVars, poolVars, cliVars, restVars>>

\* child.on('close') of a command that was started
CommandExit(c, code) ==
  /\ cmd[c].state = "running"
  /\ cmd[c].starts
  /\ ExitResolved(cmd, c, code)

\* child.on('error') of a command that could not be started
CommandSpawnError(c) ==
  /\ cmd[c].state = "running"
  /\ ~cmd[c].starts
  /\ ExitResolved([cmd EXCEPT ![c].stderr = OnErrorOutput(@),
                              ![c].combined = OnErrorOutput(@)],
                  c, <<SyntheticExitCode>>)

\* commands that start, called with the default options, under any pool
CmdNext ==
  \/ \E value \in 1..MaxLimit : setCommandConcurrency(value)
  \/ clearCommandConcurrency
  \/ \E c \in Calls : runCommandWithOutput(c, TRUE, FALSE)
  \/ \E c \in Calls, code \in ExitCodes : CommandExit(c, code)

\* the calls made while spawn failures are studied
SpawnCalls == 1..MaxSpawns

\* commands that may fail to start, called with or without throwOnError,
\* under any pool
SpawnNext ==
  \/ \E value \in 1..MaxLimit : setCommandConcurrency(value)
  \/ clearCommandConcurrency
  \/ \E c \in SpawnCalls, starts \in BOOLEAN, throwOnError \in BOOLEAN :
       runCommandWithOutput(c, starts, throwOnError)
  \/ \E c \in SpawnCalls, code \in ExitCodes : CommandExit(c, code)
  \/ \E c \in SpawnCalls : CommandSpawnError(c)

\* no agent run is in progress while the commands are studied
DefaultConfig ==
  [ platform |-> "linux", planner |-> "terminate.ts",
    mockTerminateProcessTree |-> FALSE, nodeEnv |-> "production",
    ignoresTerm |-> FALSE, responseMode |-> "callback", spawned |-> TRUE ]

CmdInit ==
  /\ AgentInit /\ cfg = DefaultConfig
  /\ IdleClock /\ IdleCmds /\ IdlePools /\ IdleCli /\ IdleRest
CmdSpec == CmdInit /\ [][CmdNext]_vars
SpawnSpec == CmdInit /\ [][SpawnNext]_vars

\* C10: of the calls made while a pool of limit N was set, at most N have a
\* spawned command running at any moment (one at a time for N = 1), and a
\* call waits only when the pool is full
C10_AtMostLimitRunning ==
  \A g \in DOMAIN pools :
    /\ Cardinality(RunningIn(g)) <= pools[g]
    /\ (\E c \in Calls : cmd[c].state = "queued" /\ cmd[c].pool = g)
         => Cardinality(RunningIn(g)) = pools[g]

C10_Witness ==
  \E g \in DOMAIN pools :
    /\ pools[g] = 1
    /\ Cardinality(RunningIn(g)) = 1
    /\ Cardinality({ c \in Calls : cmd[c].state = "queued" /\ cmd[c].pool = g }) = 2

\* ---------------------------------------------------------- the agent pools
AgentCalls == 1..MaxCalls

\* let agentConcurrency: the value of the latest setAgentConcurrency call
agentConcurrency == epochLimit[Len(epochLimit)]

\* the number of the period between two setAgentConcurrency calls
Epoch == Len(epochLimit)

\* variant: the pool map is left as it is
KeptPools == promisePools

\* promisePools.clear()
ClearedPools == [t \in Tools |-> 0]

setAgentConcurrency(value) ==
  /\ Len(epochLimit) <= MaxEpochs
  /\ epochLimit' = Append(epochLimit, value)
  /\ promisePools' = ClearedPools
  /\ UNCHANGED <<agentPools, call, agentQueue>>
  /\ UNCHANGED <<agentVars, clockVars, cmdVars, cliVars, restVars>>

\* variant: the pool made for a tool is not put into the map
PoolForgotten(tool) == 0

\* promisePools.get(tool)
PoolFor(tool) == promisePools[tool]

\* variant: a slot is given back only by a task that returns
SlotReleasedOnReturn(ok) == ok

\* PromisePool gives the slot back when the task's promise settles
SlotReleased(ok) == TRUE

\* runNonInteractiveAgent: getPromisePool(tool), then
\* pool.runAndWaitForReturnValue(task); the task starts when a slot is free.
\* The calls are numbered in the order they are made.
runNonInteractiveAgent(c, tool) ==
  LET found == PoolFor(tool)
      g == IF found = 0 THEN Len(agentPools) + 1 ELSE found
      known == IF found = 0
                 THEN Append(agentPools, [limit |-> agentConcurrency, active |-> 0,
                                          tool |-> tool, epoch |-> Epoch])
                 ELSE agentPools
      free == known[g].active < known[g].limit
  IN
  /\ call[c].state = "idle"
  /\ \A d \in AgentCalls : d < c => call[d].state # "idle"
  /\ promisePools' = [promisePools EXCEPT ![tool] = g]
  /\ call' = [call EXCEPT ![c] = [state |-> IF free THEN "holding" ELSE "queued",
                                  tool |-> tool, pool |-> g, epoch |-> Epoch]]
  /\ agentPools' = IF free THEN [known EXCEPT ![g].active = @ + 1] ELSE known
  /\ agentQueue' = IF free THEN agentQueue ELSE Append(agentQueue, c)
  /\ UNCHANGED epochLimit
  /\ UNCHANGED <<agentVars, clockVars, cmdVars, cliVars, restVars>>

\* the call that has waited longest for a slot of pool g, 0 when there is none
FirstQueued(g) ==
  LET waiting == { i \in DOMAIN agentQueue : call[agentQueue[i]].pool = g } IN
  IF waiting = {} THEN 0
  ELSE agentQueue[CHOOSE i \in waiting : \A j \in waiting : i <= j]

\* the task of a call settles: it returns the agent's result, or throws after
\* its finally block closed the result server and restored the instructions
AgentTaskEnds(c, ok) ==
  LET g == call[c].pool
      n == FirstQueued(g)
      ended == [call EXCEPT ![c].state = IF ok THEN "returned" ELSE "threw"]
  IN
  /\ call[c].state = "holding"
  /\ IF ~SlotReleased(ok)
       THEN /\ call' = ended
            /\ UNCHANGED <<agentPools, agentQueue>>
     ELSE IF n = 0
       THEN /\ call' = ended
            /\ agentPools' = [agentPools EXCEPT ![g].active = @ - 1]
            /\ UNCHANGED agentQueue
     ELSE /\ call' = [ended EXCEPT ![n].state = "holding"]
          /\ agentQueue' = SelectSeq(agentQueue, LAMBDA x : x # n)
          /\ UNCHANGED agentPools
  /\ UNCHANGED <<epochLimit, promisePools>>
  /\ UNCHANGED <<agentVars, clockVars, cmdVars, cliVars, restVars>>

PoolNext ==
  \/ \E value \in 1..MaxAgentLimit : setAgentConcurrency(value)
  \/ \E c \in AgentCalls, tool \in Tools : runNonInteractiveAgent(c, tool)
  \/ \E c \in AgentCalls, ok \in BOOLEAN : AgentTaskEnds(c, ok)

PoolInit == CmdInit
PoolSpec == PoolInit /\ [][PoolNext]_vars

\* the calls made for a tool in an epoch that hold a slot
Holding(tool, e) ==
  { c \in AgentCalls : call[c].state = "holding" /\ call[c].tool = tool /\ call[c].epoch = e }
HoldingIn(g) == { c \in AgentCalls : call[c].state = "holding" /\ call[c].pool = g }
QueuedIn(g) == { c \in AgentCalls : call[c].state = "queued" /\ call[c].pool = g }

\* C11: of the calls made for one tool after setAgentConcurrency(N) (and
\* before the next such call), at most N hold a slot at any moment; calls for
\* different tools never share a pool
C11_AtMostLimitPerTool ==
  /\ \A e \in DOMAIN epochLimit : \A tool \in Tools :
       Cardinality(Holding(tool, e)) <= epochLimit[e]
  /\ \A c \in AgentCalls : \A d \in AgentCalls :
       (call[c].pool # 0 /\ call[d].pool # 0 /\ call[c].tool # call[d].tool)
         => call[c].pool # call[d].pool

C11_Witness ==
  /\ epochLimit[Epoch] = 1
  /\ Cardinality(Holding("codex-cli", Epoch)) = 1
  /\ Cardinality(Holding("claude-code", Epoch)) = 1
  /\ \E c \in AgentCalls : call[c].state = "queued" /\ call[c].epoch = Epoch

\* C12: when the concurrency is 1 throughout, at most one call holds a slot
\* (has its agent running) at any moment, whichever tools the calls use
C12_OneRunAtATime ==
  (\A e \in DOMAIN epochLimit : epochLimit[e] = 1)
    => Cardinality({ c \in AgentCalls : call[c].state = "holding" }) <= 1

\* C13: after setAgentConcurrency(v) the map holds no pool made before the
\* call, so a call made afterwards gets a pool of limit v, while every pool
\* keeps the limit it was made with and never runs more tasks than that
C13_NewLimitForNewPoolsOnly ==
  /\ \A tool \in Tools :
       promisePools[tool] # 0 =>
         /\ agentPools[promisePools[tool]].epoch = Epoch
         /\ agentPools[promisePools[tool]].limit = agentConcurrency
  /\ \A c \in AgentCalls :
       call[c].pool # 0 =>
         /\ agentPools[call[c].pool].epoch = call[c].epoch
         /\ agentPools[call[c].pool].limit = epochLimit[call[c].epoch]
  /\ \A g \in DOMAIN agentPools :
       Cardinality(HoldingIn(g)) <= epochLimit[agentPools[g].epoch]

C13_Witness ==
  \E c \in AgentCalls : \E d \in AgentCalls :
    /\ call[c].state = "holding" /\ call[d].state = "holding"
    /\ call[c].tool = call[d].tool
    /\ call[c].epoch < call[d].epoch
    /\ agentPools[call[c].pool].limit = 1
    /\ agentPools[call[d].pool].limit = 2
    /\ QueuedIn(call[c].pool) # {}

\* C14: a task that finished, by returning or by throwing, holds no slot: the
\* slots in use are exactly the tasks still running, and a call waits only
\* while all slots of its pool are taken by running tasks
C14_FinishedTaskHoldsNoSlot ==
  \A g \in DOMAIN agentPools :
    /\ agentPools[g].active = Cardinality(HoldingIn(g))
    /\ QueuedIn(g) # {} => Cardinality(HoldingIn(g)) = agentPools[g].limit

C14_Witness ==
  \E c \in AgentCalls : \E d \in AgentCalls :
    /\ call[c].state = "threw"
    /\ call[d].state = "holding"
    /\ call[d].pool = call[c].pool
    /\ agentPools[call[c].pool].limit = 1

\* C15: the result server answers 200 to one request only, the first one
\* that passes validation, and then serves no other
C15_OnlyFirstValidPostAccepted ==
  hist.accepts <= 1

\* C16: a POST that fails validation is answered 400 and changes nothing: as
\* long as no valid POST was handled nothing is accepted, the result promise
\* is not resolved and the listener stays open; a valid POST handled later is
\* accepted, and it decides the run unless the exit promise resolved first
C16_InvalidPostLeavesServerOpen ==
  /\ hist.accepts <= hist.handled["valid"]
  /\ (Callback /\ hist.handled["valid"] = 0) =>
       /\ listening
       /\ resultPromise # "resolved"
       /\ outcome # "result"
  /\ (hist.handled["valid"] > 0 /\ resultPromise # "rejected") =>
       /\ resultPromise = "resolved"
       /\ hist.atExit # "pending" => outcome = "result"

C16_Witness ==
  /\ hist.handled["invalid"] > 0
  /\ hist.accepted = "beforeExit"
  /\ hist.accepts = 1
  /\ outcome = "result"
  /\ Returned

\* C17: a command that cannot be started makes nothing throw at the spawn:
\* its exit promise resolves with code 1, the captured stderr and combined
\* output end with the "Failed to start process" message, and the call
\* settles exactly as for a command that ran and exited with code 1
C17_SpawnFailureIsOrdinaryExit ==
  \A c \in SpawnCalls :
    ~cmd[c].starts =>
      /\ cmd[c].state = "running" => cmd[c].result = "none"
      /\ cmd[c].state = "finished" =>
           /\ cmd[c].code = <<1>>
           /\ cmd[c].stderr # <<>> /\ cmd[c].stderr[Len(cmd[c].stderr)] = FailedToStart
           /\ cmd[c].combined # <<>>
           /\ cmd[c].combined[Len(cmd[c].combined)] = FailedToStart
           /\ cmd[c].result = IF cmd[c].throwOnError THEN "threw" ELSE "exitCode 1"
           /\ cmd[c].result = CallResult(<<1>>, cmd[c].throwOnError)

C17_Witness ==
  \E c, d \in SpawnCalls :
    /\ ~cmd[c].starts /\ cmd[c].state = "finished" /\ cmd[c].result = "exitCode 1"
    /\ ~cmd[d].starts /\ cmd[d].state = "finished" /\ cmd[d].result = "threw"

\* C18: the outcome of a run is that of the first of result delivery and exit
\* to settle, and once set it never changes: a premature exit means the
\* exit was observed while no result had been received, a success in
\* callback mode means a result was received, and neither a later result
\* nor a later exit or kill alters it
C18_OutcomeFixedByFirstSettled ==
  /\ [](/\ outcome = "premature" =>
             /\ exitResolved
             /\ Callback => hist.atExit = "pending"
        /\ (Callback /\ outcome = "result") =>
             /\ resultPromise = "resolved"
             /\ hist.atExit # "pending"
        /\ outcome = "rejected" => resultPromise = "rejected")
  /\ [][outcome # "none" => outcome' = outcome]_vars

C18_Witness ==
  /\ outcome = "result"
  /\ hist.accepted = "beforeExit"
  /\ sent # <<>>
  /\ proc = "signaled"
  /\ exitResolved
  /\ Returned

\* ------------------------------------------- signals to the orchestrator
\* SIGINT or SIGTERM reaches the CLI: runCleanup starts the removal of the
\* worktrees, and the handler of the instruction override starts restoring
\* the instruction files; neither looks at the agent processes
ReceiveSignal ==
  /\ cli = "running"
  /\ cli' = "cleaning"
  /\ UNCHANGED <<agentVars, clockVars, cmdVars, poolVars, restVars>>

\* runCleanup: the worktrees are removed, process.exit(1)
CleanupExit ==
  /\ cli = "cleaning"
  /\ cli' = "exited"
  /\ UNCHANGED <<agentVars, clockVars, cmdVars, poolVars, restVars>>

\* the instruction files are restored first: the handler sends the signal to
\* the CLI again, and with no listener left it ends the process
SignalReraised ==
  /\ cli = "cleaning"
  /\ cli' = "killed"
  /\ UNCHANGED <<agentVars, clockVars, cmdVars, poolVars, restVars>>

\* the event loop of the CLI runs the agent's handlers until the CLI is gone
CliAlive == cli \in {"running", "cleaning"}

ShutdownNext ==
  \/ CliAlive /\ AgentNext
  \/ ReceiveSignal
  \/ CleanupExit
  \/ SignalReraised

ShutdownSpec == Init /\ [][ShutdownNext]_vars

\* C19: once the orchestrator has ended on SIGINT or SIGTERM, no agent
\* process it started is still running
C19_AgentsTerminatedBeforeCliExits ==
  ~CliAlive => proc # "running"

\* C20: in mock mode (mockTerminateProcessTree set and NODE_ENV "test") no
\* signal is ever sent; a process that outlives the grace period gets
\* exactly one recorded plan, of mode "mock" and signal SIGTERM, with the
\* strategy, pid and process-group id of the plan a real termination builds,
\* and a process that exits within the grace period gets none
C20_MockRecordsPlanWithoutSignal ==
  LET real == buildTerminationPlan("real", "SIGTERM", ChildPid, ProcessGroupId) IN
  ShouldMock =>
    /\ sent = <<>>
    /\ ~killed
    /\ hist.grace = "timeout" =>
         /\ Len(plans) = 1
         /\ plans[1].mode = "mock"
         /\ plans[1].signal = "SIGTERM"
         /\ plans[1].strategy = real.strategy
         /\ plans[1].pid = real.pid
         /\ plans[1].processGroupId = real.processGroupId
    /\ hist.grace # "timeout" => plans = <<>>

C20_Witness ==
  /\ ShouldMock
  /\ hist.grace = "timeout"
  /\ Len(plans) = 1
  /\ plans[1].strategy = "process-group"
  /\ proc = "running"
  /\ Returned

\* ---------------------------------------------------------- the logger
\* A prefix is a sequence of bracketed labels joined by one space, <<>> for
\* undefined; a label is [k, n]: the main prefix or the local prefix given
\* to scope n, or the command id n. A line is the text with the prefix put
\* before it; the text names where it was logged and by which process.
NoContext == [ mainPrefix |-> <<>>, prefix |-> <<>>, extraLogPaths |-> <<>> ]

\* variant: the child's prefix replaces the parent's
mergePrefixesChildOnly(parent, child) == IF child # <<>> THEN child ELSE parent

\* mergePrefixes: `${parent} ${child}` when both are set, else the one set
mergePrefixes(parent, child) ==
  IF parent # <<>> /\ child # <<>> THEN parent \o child
  ELSE IF parent # <<>> THEN parent ELSE child

mergeLogPaths(parent, child) == parent \o child

mergeLogContext(parent, child) ==
  [ mainPrefix |-> mergePrefixes(parent.mainPrefix, child.mainPrefix),
    prefix |-> mergePrefixes(parent.prefix, child.prefix),
    extraLogPaths |-> mergeLogPaths(parent.extraLogPaths, child.extraLogPaths) ]

\* applyPrefixToText for a text of one line
applyPrefixToText(text, prefix) == [ prefix |-> prefix, text |-> text ]

\* getContext() in scope s; scope 0 is the code outside every runWithContext
ContextOf(s) == IF s = 0 THEN NoContext ELSE scope[s].ctx

\* variant: every extra log path known to the logger gets the line
ExtraTargetsAll(context) ==
  { n \in LogPaths : n <= Len(scope) /\ scope[n].given.extraLogPaths # <<>> }

\* appendToFile: the extra paths of the context of the emission
ExtraTargets(context) ==
  { context.extraLogPaths[i] : i \in DOMAIN context.extraLogPaths }

\* info / error / writeChunk: the main line goes to the main log and, when
\* asked, to the console; each extra path of the context gets the line with
\* the local prefix when the context has a main prefix, else the raw line
Emit(context, text, toConsole) ==
  LET baseLine == applyPrefixToText(text, context.prefix)
      mainLine == applyPrefixToText(text,
                    mergePrefixes(context.mainPrefix, context.prefix))
      rawLine == applyPrefixToText(text, <<>>)
      extraLine == IF context.mainPrefix # <<>> THEN baseLine ELSE rawLine
  IN
  /\ mainLog' = Append(mainLog, mainLine)
  /\ console' = IF toConsole THEN Append(console, mainLine) ELSE console
  /\ extraLog' = [p \in LogPaths |->
                    IF p \in ExtraTargets(context)
                      THEN Append(extraLog[p], extraLine) ELSE extraLog[p]]

LogFrame == UNCHANGED <<agentVars, clockVars, poolVars, cliVars, instrVars, moreVars>>

\* the scope made by runWithContext(child, fn) called in scope s
Entered(s, child, kind) ==
  [ ctx |-> mergeLogContext(ContextOf(s), child), given |-> child,
    parent |-> s, kind |-> kind ]

\* variant: the merge is written into the context of the calling scope
AfterEnterAmbientMutated(s, entered) ==
  Append(IF s = 0 THEN scope ELSE [scope EXCEPT ![s].ctx = entered.ctx], entered)

\* this.context.run(mergedContext, fn): the merged context is a new value
\* that belongs to fn alone; the contexts there are stay as they are
AfterEnter(s, entered) == Append(scope, entered)

\* runWithContext(child, fn) called in scope s; the new scope is number n,
\* and the labels and the log path it is given carry that number
runWithContext(s, hasMainPrefix, hasPrefix, hasPath) ==
  LET n == Len(scope) + 1
      child == [ mainPrefix |-> IF hasMainPrefix THEN << [k |-> "main", n |-> n] >> ELSE <<>>,
                 prefix |-> IF hasPrefix THEN << [k |-> "local", n |-> n] >> ELSE <<>>,
                 extraLogPaths |-> IF hasPath THEN <<n>> ELSE <<>> ]
  IN
  /\ Len(scope) < MaxNesting
  /\ scope' = AfterEnter(s, Entered(s, child, "scope"))
  /\ UNCHANGED <<lproc, mainLog, extraLog, console, cmdVars>>
  /\ LogFrame

\* logger.info(message) in scope s
LoggerInfo(s) ==
  /\ Len(mainLog) < MaxLines
  /\ Emit(ContextOf(s), [kind |-> "info", by |-> s, proc |-> 0], TRUE)
  /\ UNCHANGED <<scope, lproc, cmdVars>>
  /\ LogFrame

\* the scopes main gives to the workflow runs
Runs == { s \in DOMAIN scope : scope[s].kind = "run" }

\* main: runWithContext({ extraLogPaths: [workflowLogPath], mainPrefix:
\* runPrefix }, ...) for one more workflow run
StartWorkflowRun ==
  LET n == Len(scope) + 1
      child == [ mainPrefix |-> << [k |-> "main", n |-> n] >>, prefix |-> <<>>,
                 extraLogPaths |-> <<n>> ]
  IN
  /\ Cardinality(Runs) < MaxRuns
  /\ scope' = AfterEnter(0, Entered(0, child, "run"))
  /\ UNCHANGED <<lproc, mainLog, extraLog, console, cmdVars>>
  /\ LogFrame

\* variant: the counter is read without being advanced
nextCommandLabelStale == nextCommandId

\* nextCommandLabel: nextCommandId += 1, `[${nextCommandId}]`
nextCommandLabel == nextCommandId + 1

\* variant: the label line is left out
LabelLineOmitted(context, q) ==
  UNCHANGED <<mainLog, extraLog, console>>

\* logger.info(commandLabel) at the head of the spawn's scope
LabelLine(context, q) ==
  Emit(context, [kind |-> "label", by |-> Len(scope) + 1, proc |-> q], TRUE)

\* spawnProcessWithLogging called in scope s: the command id is taken, the
\* scope { prefix: commandId } is entered, the label line is logged, the
\* process is spawned and its handlers are registered; options.stream is left
\* at its default, so the output lines do not go to the console
SpawnProcess(s) ==
  LET n == Len(scope) + 1
      q == Len(lproc) + 1
      id == nextCommandLabel
      child == [ mainPrefix |-> <<>>, prefix |-> << [k |-> "id", n |-> id] >>,
                 extraLogPaths |-> <<>> ]
      entered == Entered(s, child, "process")
  IN
  /\ Len(lproc) < MaxProcs
  /\ Len(mainLog) < MaxProcLines
  /\ s \in Runs \cup {0}
  /\ nextCommandId' = id
  /\ scope' = AfterEnter(s, entered)
  /\ lproc' = Append(lproc, [ scope |-> n, id |-> id, stream |-> FALSE,
                              buffer |-> FALSE, state |-> "running" ])
  /\ LabelLine(entered.ctx, q)
  /\ UNCHANGED <<pools, commandPromisePool, cmd, queue>>
  /\ LogFrame

\* variant: the handlers log in the context entered last
HandlerContextLatest(q) == ContextOf(Len(scope))

\* the context the 'data' and 'close' handlers of process q run in: the one
\* in which they were registered
HandlerContext(q) == ContextOf(lproc[q].scope)

\* logger.writeChunk(line, streamToConsole, isError) from the line buffer
OutputLine(q) ==
  /\ Len(mainLog) < MaxProcLines
  /\ Emit(HandlerContext(q), [kind |-> "output", by |-> lproc[q].scope, proc |-> q],
          lproc[q].stream)

\* child.stdout.on('data'): the chunk ends inside a line, or it ends a line;
\* createLineBuffer emits complete lines only
ProcessData(q, endsLine) ==
  /\ lproc[q].state = "running"
  /\ IF endsLine
       THEN /\ OutputLine(q)
            /\ lproc' = [lproc EXCEPT ![q].buffer = FALSE]
       ELSE /\ lproc' = [lproc EXCEPT ![q].buffer = TRUE]
            /\ UNCHANGED <<mainLog, extraLog, console>>
  /\ UNCHANGED <<scope, cmdVars>>
  /\ LogFrame

\* child.on('close'): the buffers are flushed and the exit promise resolves
ProcessClose(q) ==
  /\ lproc[q].state = "running"
  /\ IF lproc[q].buffer
       THEN OutputLine(q)
       ELSE UNCHANGED <<mainLog, extraLog, console>>
  /\ lproc' = [lproc EXCEPT ![q].buffer = FALSE, ![q].state = "closed"]
  /\ UNCHANGED <<scope, cmdVars>>
  /\ LogFrame

\* nested scopes of any shape, with text logged in and around them
LogNext ==
  \/ \E s \in 0..Len(scope), hasMainPrefix \in BOOLEAN, hasPrefix \in BOOLEAN,
        hasPath \in BOOLEAN : runWithContext(s, hasMainPrefix, hasPrefix, hasPath)
  \/ \E s \in 0..Len(scope) : LoggerInfo(s)

LogSpec == CmdInit /\ [][LogNext]_vars

\* the workflow runs of main, each spawning processes that write output
ProcLogNext ==
  \/ StartWorkflowRun
  \/ \E s \in 0..Len(scope) : SpawnProcess(s)
  \/ \E q \in DOMAIN lproc, endsLine \in BOOLEAN : ProcessData(q, endsLine)
  \/ \E q \in DOMAIN lproc : ProcessClose(q)

ProcLogSpec == CmdInit /\ [][ProcLogNext]_vars

\* the labels given to the scopes around scope s, outermost first
RECURSIVE MainChain(_)
MainChain(s) ==
  IF s = 0 THEN <<>> ELSE MainChain(scope[s].parent) \o scope[s].given.mainPrefix

RECURSIVE LocalChain(_)
LocalChain(s) ==
  IF s = 0 THEN <<>> ELSE LocalChain(scope[s].parent) \o scope[s].given.prefix

\* scope s is scope n or lies inside it
RECURSIVE Within(_, _)
Within(s, n) ==
  IF s = n THEN TRUE ELSE IF s = 0 THEN FALSE ELSE Within(scope[s].parent, n)

\* a parent scope entered from the top level with one prefix P, given either
\* as its prefix or as its main prefix, and a child scope given the prefix C
PrefixedPair(p, c) ==
  /\ p # 0
  /\ scope[c].parent = p
  /\ scope[p].parent = 0
  /\ (scope[p].given.mainPrefix = <<>>) # (scope[p].given.prefix = <<>>)
  /\ scope[c].given.mainPrefix = <<>>
  /\ scope[c].given.prefix # <<>>

\* C21 as stated: with a parent prefix P and a child prefix C, every line
\* logged in the child scope is prefixed "P C " in the main log and on the
\* console and "C " alone in the extra log files
C21_ChildLinesPrefixedPCAndC ==
  \A c \in DOMAIN scope :
    PrefixedPair(scope[c].parent, c) =>
      LET P == scope[scope[c].parent].given.mainPrefix \o scope[scope[c].parent].given.prefix
          C == scope[c].given.prefix
      IN
      /\ \A i \in DOMAIN mainLog :
           mainLog[i].text.by = c => mainLog[i].prefix = P \o C
      /\ \A i \in DOMAIN console :
           console[i].text.by = c => console[i].prefix = P \o C
      /\ \A n \in LogPaths : \A i \in DOMAIN extraLog[n] :
           extraLog[n][i].text.by = c => extraLog[n][i].prefix = C

\* C21: a line logged in a scope carries, in the main log and on the
\* console, the main prefixes of the enclosing scopes in nesting order
\* followed by their local prefixes in nesting order; in the extra log files
\* it carries the local prefixes alone when some enclosing scope has a main
\* prefix, and no prefix at all otherwise
C21_MainPrefixesThenLocalPrefixes ==
  /\ \A i \in DOMAIN mainLog :
       mainLog[i].prefix = MainChain(mainLog[i].text.by) \o LocalChain(mainLog[i].text.by)
  /\ \A i \in DOMAIN console :
       console[i].prefix = MainChain(console[i].text.by) \o LocalChain(console[i].text.by)
  /\ \A n \in LogPaths : \A i \in DOMAIN extraLog[n] :
       extraLog[n][i].prefix =
         IF MainChain(extraLog[n][i].text.by) # <<>>
           THEN LocalChain(extraLog[n][i].text.by) ELSE <<>>

C21_Witness ==
  \E c \in DOMAIN scope :
    LET p == scope[c].parent IN
    /\ p # 0
    /\ scope[p].given.mainPrefix # <<>> /\ scope[p].given.prefix = <<>>
    /\ scope[p].given.extraLogPaths = <<p>>
    /\ scope[c].given.prefix # <<>> /\ scope[c].given.mainPrefix = <<>>
    /\ \E i \in DOMAIN mainLog :
         /\ mainLog[i].text.by = c
         /\ mainLog[i].prefix = scope[p].given.mainPrefix \o scope[c].given.prefix
    /\ \E i \in DOMAIN extraLog[p] :
         /\ extraLog[p][i].text.by = c
         /\ extraLog[p][i].prefix = scope[c].given.prefix

\* the texts of a sequence of lines
Texts(lines) == [i \in DOMAIN lines |-> lines[i].text]

\* C22: every output line of a process carries the main prefix of the run
\* in which the process was spawned followed by the process's own command
\* id, and it goes to the workflow log of that run and of no other
C22_OutputCarriesOwnRunAndId ==
  /\ \A i \in DOMAIN mainLog :
       LET q == mainLog[i].text.proc IN
       q # 0 =>
         LET r == scope[lproc[q].scope].parent IN
         mainLog[i].prefix =
           (IF r = 0 THEN <<>> ELSE << [k |-> "main", n |-> r] >>)
             \o << [k |-> "id", n |-> lproc[q].id] >>
  /\ \A n \in LogPaths : \A i \in DOMAIN extraLog[n] :
       LET q == extraLog[n][i].text.proc IN
       q # 0 =>
         /\ scope[lproc[q].scope].parent = n
         /\ extraLog[n][i].prefix = << [k |-> "id", n |-> lproc[q].id] >>

C22_Witness ==
  \E i \in DOMAIN mainLog : \E j \in DOMAIN mainLog :
    LET a == mainLog[i].text.proc
        b == mainLog[j].text.proc
    IN
    /\ i < j
    /\ mainLog[i].text.kind = "output" /\ mainLog[j].text.kind = "output"
    /\ a > b
    /\ scope[lproc[a].scope].parent # 0
    /\ scope[lproc[b].scope].parent # 0
    /\ scope[lproc[a].scope].parent # scope[lproc[b].scope].parent

\* C23: the lines of the log file p given to a scope are, in order, the
\* texts logged in that scope or inside it, each of which is in the main log
\* too; a text logged anywhere else is not in p
C23_ExtraLogHoldsItsScopeOnly ==
  \A n \in LogPaths :
    Texts(extraLog[n]) =
      IF n \in DOMAIN scope /\ scope[n].given.extraLogPaths # <<>>
        THEN SelectSeq(Texts(mainLog), LAMBDA t : Within(t.by, n))
        ELSE <<>>

C23_Witness ==
  \E n \in DOMAIN scope : \E m \in DOMAIN scope :
    /\ n # m
    /\ scope[n].parent = scope[m].parent
    /\ scope[n].given.extraLogPaths # <<>>
    /\ Len(extraLog[n]) = 1
    /\ \E i \in DOMAIN mainLog : mainLog[i].text.by = m
    /\ \E i \in DOMAIN mainLog : mainLog[i].text.by = 0

\* the places in the main log of the lines of one kind of process q
LinesOf(q, kind) ==
  { i \in DOMAIN mainLog : mainLog[i].text.proc = q /\ mainLog[i].text.kind = kind }

\* C24: every spawned process has exactly one label line in the log, under
\* its own command id, and each of its output lines comes after it
C24_OneLabelLineBeforeOutput ==
  \A q \in DOMAIN lproc :
    /\ Cardinality(LinesOf(q, "label")) = 1
    /\ \A i \in LinesOf(q, "label") :
         /\ mainLog[i].prefix[Len(mainLog[i].prefix)] = [k |-> "id", n |-> lproc[q].id]
         /\ \A j \in LinesOf(q, "output") : i < j

C24_Witness ==
  \E q \in DOMAIN lproc :
    /\ lproc[q].state = "closed"
    /\ Cardinality(LinesOf(q, "output")) = 2

\* C25: the command ids grow strictly in spawn order, so no two processes
\* share one, whether they run at the same time or not
C25_CommandIdsStrictlyIncrease ==
  \A q \in DOMAIN lproc : \A r \in DOMAIN lproc :
    q < r => /\ 0 < lproc[q].id
             /\ lproc[q].id < lproc[r].id
             /\ lproc[r].id <= nextCommandId

C25_Witness ==
  /\ Len(lproc) = MaxProcs
  /\ \A q \in DOMAIN lproc : lproc[q].state = "running"
  /\ lproc[1].id = 1
  /\ lproc[2].id = 2

\* ------------------------------------------------- instruction override
\* the content apply writes into the instruction files
Replacement == "replacement"
NumFiles == Len(InstructionFilenames)

InstrFrame ==
  UNCHANGED <<agentVars, clockVars, cmdVars, poolVars, cliVars, logVars, moreVars>>

clearTimeoutIfNeeded(state) == [state EXCEPT !.timeoutId = "none"]

\* the timer of the override is replaced by a new one
refreshTimeout(state) ==
  [clearTimeoutIfNeeded(state) EXCEPT !.timeoutId = "pending"]

\* the entry of originalContents the loop of restore visits after entry i,
\* 0 when there is none; the entries are in the order of the file names
NextEntry(originalContents, i) ==
  LET later == { j \in (i + 1)..NumFiles :
                   originalContents[InstructionFilenames[j]] # "none" }
  IN IF later = {} THEN 0 ELSE CHOOSE j \in later : \A k \in later : j <= k

\* the end of the restoring function: the override is forgotten
RestoreDone(state) ==
  [clearTimeoutIfNeeded(state) EXCEPT
     !.originalContents = [f \in Files |-> "none"],
     !.active = FALSE,
     !.restoring = FALSE,
     !.replacement = "none"]

CallerReturns(op) ==
  [caller EXCEPT !.op = "idle", !.i = 0, !.existing = "none", !.last = op,
                 !.restores = IF op = "restore" THEN @ + 1 ELSE @]

\* restoreTemporaryAgentInstructions up to its first await, called on the
\* override as `state`; byCaller tells the caller's call from the timer's
restoreTemporaryAgentInstructions(state, byCaller) ==
  IF ~state.active
    THEN /\ overrideState' = state
         /\ restoring' = restoring
         /\ caller' = IF byCaller THEN CallerReturns("restore") ELSE caller
    ELSE IF state.restoring
      THEN /\ overrideState' = state
           /\ restoring' = restoring
           /\ caller' = IF byCaller THEN [caller EXCEPT !.op = "restore"] ELSE caller
      ELSE IF NextEntry(state.originalContents, 0) = 0
        THEN /\ overrideState' = RestoreDone(state)
             /\ restoring' = 0
             /\ caller' = IF byCaller THEN CallerReturns("restore") ELSE caller
        ELSE /\ overrideState' = [state EXCEPT !.restoring = TRUE]
             /\ restoring' = NextEntry(state.originalContents, 0)
             /\ caller' = IF byCaller THEN [caller EXCEPT !.op = "restore"] ELSE caller

\* the caller calls applyTemporaryAgentInstructions: the first read starts
CallApply ==
  /\ caller.op = "idle"
  /\ caller.applies < MaxApplies
  /\ caller' = [caller EXCEPT !.op = "apply", !.i = 1, !.existing = "none",
                              !.applies = @ + 1]
  /\ overrideState' = [overrideState EXCEPT !.replacement = Replacement]
  /\ UNCHANGED <<files, initialFiles, restoring>>
  /\ InstrFrame

\* the end of apply: the override is active when a file was saved, and
\* then the timer is set anew
ApplyFinished(state) ==
  IF \E f \in Files : state.originalContents[f] # "none"
    THEN refreshTimeout([state EXCEPT !.active = TRUE])
    ELSE [state EXCEPT !.active = FALSE]

\* apply goes on after file i, on the override as `state`
ApplyAdvance(state) ==
  IF caller.i < NumFiles
    THEN /\ caller' = [caller EXCEPT !.i = @ + 1, !.existing = "none"]
         /\ overrideState' = state
    ELSE /\ caller' = CallerReturns("apply")
         /\ overrideState' = ApplyFinished(state)

\* readFileIfExists resolves: a missing file is skipped, the content of
\* another is saved unless one is saved already, and the write starts
ApplyRead ==
  /\ caller.op = "apply"
  /\ caller.existing = "none"
  /\ LET f == InstructionFilenames[caller.i] IN
     IF files[f] = "missing"
       THEN ApplyAdvance(overrideState)
       ELSE /\ caller' = [caller EXCEPT !.existing = files[f]]
            /\ overrideState' =
                 IF overrideState.originalContents[f] = "none"
                   THEN [overrideState EXCEPT !.originalContents[f] = files[f]]
                   ELSE overrideState
  /\ UNCHANGED <<files, initialFiles, restoring>>
  /\ InstrFrame

\* writeFile of the replacement resolves
ApplyWrite ==
  /\ caller.op = "apply"
  /\ caller.existing # "none"
  /\ files' = [files EXCEPT ![InstructionFilenames[caller.i]] = Replacement]
  /\ ApplyAdvance(overrideState)
  /\ UNCHANGED <<initialFiles, restoring>>
  /\ InstrFrame

\* the caller calls restoreTemporaryAgentInstructions after an apply
CallRestore ==
  /\ caller.op = "idle"
  /\ caller.last = "apply"
  /\ restoreTemporaryAgentInstructions(overrideState, TRUE)
  /\ UNCHANGED <<files, initialFiles>>
  /\ InstrFrame

\* the timer set by refreshTimeout fires and calls restore
TimerFires ==
  /\ overrideState.timeoutId = "pending"
  /\ restoreTemporaryAgentInstructions(
       [overrideState EXCEPT !.timeoutId = "fired"], FALSE)
  /\ UNCHANGED <<files, initialFiles>>
  /\ InstrFrame

\* writeFile of a saved content resolves in the restoring function; after
\* the last entry the override is forgotten and a waiting caller returns
RestoreStep ==
  /\ restoring # 0
  /\ LET f == InstructionFilenames[restoring]
         next == NextEntry(overrideState.originalContents, restoring)
     IN
     /\ files' = [files EXCEPT ![f] = overrideState.originalContents[f]]
     /\ IF next = 0
          THEN /\ overrideState' = RestoreDone(overrideState)
               /\ restoring' = 0
               /\ caller' = IF caller.op = "restore"
                              THEN CallerReturns("restore") ELSE caller
          ELSE /\ restoring' = next
               /\ UNCHANGED <<overrideState, caller>>
  /\ UNCHANGED initialFiles
  /\ InstrFrame

InstrInit ==
  /\ AgentInit /\ cfg = DefaultConfig
  /\ IdleClock /\ IdleCmds /\ IdlePools /\ IdleCli /\ IdleLog /\ IdleMore
  /\ files \in [Files -> {"missing", "original"}]
  /\ initialFiles = files
  /\ overrideState = NoOverride
  /\ caller = IdleCaller
  /\ restoring = 0

InstrNext ==
  \/ CallApply
  \/ ApplyRead
  \/ ApplyWrite
  \/ CallRestore
  \/ TimerFires
  \/ RestoreStep

InstrSpec == InstrInit /\ [][InstrNext]_vars

\* the steps of the program itself are taken when they can be: a file
\* operation under way completes, a timer that is set fires.  Nothing is
\* assumed of the caller.
InstrFairness ==
  /\ WF_vars(ApplyRead)
  /\ WF_vars(ApplyWrite)
  /\ WF_vars(TimerFires)
  /\ WF_vars(RestoreStep)

FairInstrSpec == InstrInit /\ [][InstrNext]_vars /\ InstrFairness

\* C26: when the caller's restore has returned after one apply or more,
\* every instruction file that existed has its original content again, and
\* a file that did not exist is never created
C26_ApplyRestoreRoundTrip ==
  /\ (caller.op = "idle" /\ caller.last = "restore") => files = initialFiles
  /\ \A f \in Files : initialFiles[f] = "missing" => files[f] = "missing"

\* the override has been applied, no apply is under way, and restore has
\* not been called
AppliedNotRestored ==
  /\ caller.op = "idle"
  /\ caller.applies > 0
  /\ caller.restores = 0

\* C27: when restore is not called, an override that was applied is in the
\* end undone by the timer: the original contents are written back and the
\* override is inactive
C27_TimeoutRestoresOriginals ==
  AppliedNotRestored ~>
    (caller.restores > 0 \/ (files = initialFiles /\ ~overrideState.active))

\* ------------------------------------------- termination plans and signals
\* the strategy of the first rule that matches, in the order no pid,
\* Windows, known process group, macOS, otherwise
FirstMatchingStrategy(pid, processGroupId) ==
  IF pid = 0 THEN "no-pid"
  ELSE IF cfg.platform = "win32" THEN "windows"
  ELSE IF processGroupId # 0 THEN "process-group"
  ELSE IF cfg.platform = "darwin" THEN "darwin-tree"
  ELSE "child-only"

\* C28: every plan built for the agent has the strategy of the first
\* matching rule in the order no pid, Windows, known process group, macOS,
\* child only; a known process group gives "process-group" on macOS too
C28_StrategyByFirstMatchingRule ==
  \A i \in DOMAIN plans :
    /\ plans[i].strategy = FirstMatchingStrategy(ChildPid, ProcessGroupId)
    /\ (plans[i].strategy # "darwin-tree" => plans[i].descendants = {})

\* in a real termination the signals are SIGTERM and then at most SIGKILL,
\* and the plans recorded are one per signal, in the same order
OnePlanPerSignal ==
  /\ Len(sent) <= 2
  /\ Len(sent) >= 1 => sent[1] = "SIGTERM"
  /\ Len(sent) = 2 => sent[2] = "SIGKILL" /\ hist.termWait = "timeout"
  /\ Len(plans) = Len(sent)
  /\ \A i \in DOMAIN plans :
       /\ plans[i].mode = "real"
       /\ plans[i].signal = sent[i]
       /\ plans[i].platform = cfg.platform
       /\ plans[i].strategy =
            buildTerminationPlan("real", sent[i], ChildPid, ProcessGroupId).strategy

\* C29 as stated: in a real termination SIGTERM is the first signal, SIGKILL
\* comes only after it and only when the process had not exited at the end
\* of the wait, and one plan is recorded per signal, two at most
C29_SigkillOnlyForRunningProcess ==
  ~ShouldMock =>
    /\ OnePlanPerSignal
    /\ Len(sent) = 2 => hist.atEscalation.proc = "running"

\* C29: in a real termination SIGTERM is the first signal, SIGKILL comes
\* only after it and only when the exit promise had not resolved at the end
\* of the wait, and one plan is recorded per signal, two at most
C29_SigkillOnlyForUnresolvedExit ==
  ~ShouldMock =>
    /\ OnePlanPerSignal
    /\ Len(sent) = 2 => ~hist.atEscalation.exited

C29_Witness ==
  /\ ~ShouldMock
  /\ sent = <<"SIGTERM", "SIGKILL">>
  /\ Len(plans) = 2
  /\ hist.atEscalation.proc = "signaled"
  /\ ~hist.atEscalation.exited

\* a delivery to the process group, or to a listed descendant, that failed
FailedDelivery(i) ==
  /\ hist.deliveries[i].to \in {"group", "d"}
  /\ ~hist.deliveries[i].ok

\* C30: no failure to deliver a signal leaves finalizeAgentProcess as an
\* exception: after a failed delivery to the process group, or to a listed
\* descendant, the direct child is signalled and the finalization goes on
C30_DeliveryFailureNeverThrown ==
  /\ ~hist.thrown
  /\ \A i \in DOMAIN hist.deliveries :
       FailedDelivery(i) =>
         /\ i < Len(hist.deliveries)
         /\ hist.deliveries[i + 1].to = "child"
  /\ (\E i \in DOMAIN hist.deliveries : FailedDelivery(i)) =>
       pc \in {"termWait", "awaitExit", "done"}

C30_Witness ==
  /\ Returned
  /\ exitResolved
  /\ \E i \in DOMAIN hist.deliveries :
       hist.deliveries[i] = [to |-> "group", ok |-> FALSE]

\* ------------------------------------------------------- the line buffer
\* A text is a sequence of characters; "\n" is the newline.
Chars == {"a", "\n"}

\* every text of at most n characters
RECURSIVE TextsUpTo(_)
TextsUpTo(n) ==
  IF n = 0 THEN { <<>> }
  ELSE TextsUpTo(n - 1) \cup
       { Append(t, c) : t \in { u \in TextsUpTo(n - 1) : Len(u) = n - 1 }, c \in Chars }

\* text.split("\n"): the pieces between the newlines, at least one piece
RECURSIVE Split(_)
Split(text) ==
  IF \A i \in DOMAIN text : text[i] # "\n" THEN << text >>
  ELSE LET i == CHOOSE j \in DOMAIN text :
                  text[j] = "\n" /\ \A k \in 1..(j - 1) : text[k] # "\n"
       IN << SubSeq(text, 1, i - 1) >> \o Split(SubSeq(text, i + 1, Len(text)))

\* the texts of a sequence put one after the other
RECURSIVE Concat(_)
Concat(texts) ==
  IF texts = <<>> THEN <<>> ELSE Head(texts) \o Concat(Tail(texts))

\* variant: every chunk is emitted as it comes, with a newline put after it
LineBufferWriteUnbuffered(b, text) ==
  IF text = <<>> THEN b
  ELSE [b EXCEPT !.emitted = Append(@, Append(text, "\n"))]

\* write(text) of the line buffer: the complete lines are emitted, each
\* with its newline, and the rest is kept
LineBufferWrite(b, text) ==
  IF text = <<>> THEN b
  ELSE LET lines == Split(b.buffer \o text) IN
       [b EXCEPT !.buffer = lines[Len(lines)],
                 !.emitted = @ \o [i \in 1..(Len(lines) - 1) |-> Append(lines[i], "\n")]]

\* flush() of the line buffer: what is kept is emitted with a newline
LineBufferFlush(b) ==
  IF b.buffer = <<>> THEN b
  ELSE [b EXCEPT !.emitted = Append(@, Append(b.buffer, "\n")), !.buffer = <<>>]

LineFrame ==
  UNCHANGED <<agentVars, clockVars, cmdVars, poolVars, cliVars, logVars, instrVars,
              worktree, fileRun, agentTask,
              resultServer, waitState, ensurer, signals>>

\* child.stdout.on('data'): the chunk is handed to the line buffer
StreamData(text) ==
  /\ ~lineBuffer.closed
  /\ Len(lineBuffer.chunks) < MaxChunks
  /\ lineBuffer' = [LineBufferWrite(lineBuffer, text) EXCEPT
                      !.chunks = Append(lineBuffer.chunks, text)]
  /\ LineFrame

\* child.on('close'): the line buffer is flushed
StreamClose ==
  /\ ~lineBuffer.closed
  /\ lineBuffer' = [LineBufferFlush(lineBuffer) EXCEPT !.closed = TRUE]
  /\ LineFrame

LineNext ==
  \/ \E text \in TextsUpTo(MaxChunkLen) : StreamData(text)
  \/ StreamClose

LineSpec == CmdInit /\ [][LineNext]_vars

\* each emission is one whole line: no newline but the one at its end
WholeLines ==
  \A i \in DOMAIN lineBuffer.emitted :
    LET e == lineBuffer.emitted[i] IN
    /\ e # <<>>
    /\ \A j \in DOMAIN e : (e[j] = "\n") <=> (j = Len(e))

\* the output so far
Written == Concat(lineBuffer.chunks)

\* C31 as stated: every emission is one whole line, and after the flush at
\* the close the emissions together are the chunks together, with one
\* newline more if the output did not end with one
C31_EmissionsAreOutputPlusNewline ==
  /\ WholeLines
  /\ lineBuffer.closed =>
       Concat(lineBuffer.emitted) =
         IF Written # <<>> /\ Written[Len(Written)] = "\n"
           THEN Written ELSE Append(Written, "\n")

\* C31: every emission is one whole line; while the process runs the
\* emissions together with the kept rest are the chunks together, and the
\* rest has no newline; after the flush at the close nothing is kept and the
\* emissions together are the chunks together, with one newline more if the
\* output was not empty and did not end with one
C31_EmissionsAreWholeLinesOfOutput ==
  /\ WholeLines
  /\ Concat(lineBuffer.emitted) \o lineBuffer.buffer =
       IF lineBuffer.closed /\ Written # <<>> /\ Written[Len(Written)] # "\n"
         THEN Append(Written, "\n") ELSE Written
  /\ \A i \in DOMAIN lineBuffer.buffer : lineBuffer.buffer[i] # "\n"
  /\ lineBuffer.closed => lineBuffer.buffer = <<>>

C31_Witness ==
  /\ lineBuffer.closed
  /\ lineBuffer.chunks = << <<"a">>, <<"\n", "a">>, <<"a">> >>
  /\ lineBuffer.emitted = << <<"a", "\n">>, <<"a", "a", "\n">> >>

\* ------------------------------------------------ the extent of a context
\* every context is the merge of the context it was entered from with what
\* it was given, and a text logged in a scope, whenever it is logged, has
\* the prefixes of that scope's context; at the top level it has none
ContextsAreMerges ==
  /\ \A s \in DOMAIN scope :
       scope[s].ctx = mergeLogContext(ContextOf(scope[s].parent), scope[s].given)
  /\ \A i \in DOMAIN mainLog :
       LET context == ContextOf(mainLog[i].text.by) IN
       mainLog[i].prefix = mergePrefixes(context.mainPrefix, context.prefix)
  /\ \A p \in LogPaths : \A i \in DOMAIN extraLog[p] :
       \E j \in DOMAIN ContextOf(extraLog[p][i].text.by).extraLogPaths :
         ContextOf(extraLog[p][i].text.by).extraLogPaths[j] = p

\* no step changes a context that exists: entering a scope adds one
ContextsKept ==
  /\ Len(scope') >= Len(scope)
  /\ \A s \in DOMAIN scope : scope'[s] = scope[s]

\* C32: runWithContext builds a new merged context and leaves the context
\* it was called in as it is; what is logged in a scope sees that scope's
\* merged context at any later time, and what is logged outside it, at the
\* top level or in another scope, sees its own context unchanged
C32_MergedContextWithoutMutation ==
  []ContextsAreMerges /\ [][ContextsKept]_vars

C32_Witness ==
  /\ Len(scope) = 2
  /\ scope[2].parent = 1
  /\ scope[2].given.prefix # <<>>
  /\ scope[1].given.prefix # <<>>
  /\ Len(mainLog) = 3
  /\ mainLog[1].text.by = 2
  /\ mainLog[2].text.by = 1
  /\ mainLog[2].prefix = scope[1].given.prefix
  /\ mainLog[3].text.by = 0
  /\ mainLog[3].prefix = <<>>

\* --------------------------------------------------- the worktree lock
WorktreeCalls == 1..MaxWorktrees

WorktreeFrame ==
  UNCHANGED <<agentVars, clockVars, cmdVars, poolVars, cliVars, logVars, instrVars,
              lineBuffer, fileRun, agentTask,
              resultServer, waitState, ensurer, signals>>

\* variant: worktreeQueue.then(fn) with no handler for a rejection, so that
\* only a creation that succeeded lets the next one start
SettledFulfilledOnly(state) == state = "done"

\* worktreeQueue.then(fn, fn) on run.then(() => undefined, () => undefined):
\* the next creation starts when the one before it has ended, either way
Settled(state) == state \in {"done", "failed"}

\* the promise that call c chained its creation to has settled
MayStart(w, c) == w.call[c].prev = 0 \/ Settled(w.call[w.call[c].prev].state)

\* the creations whose turn has come start: 'git worktree add' is issued
StartReady(w) ==
  LET ready == { c \in WorktreeCalls : w.call[c].state = "queued" /\ MayStart(w, c) }
  IN IF ready = {} THEN w
     ELSE LET c == CHOOSE d \in ready : \A e \in ready : d <= e IN
          [w EXCEPT !.call[c].state = "running", !.started = Append(@, c)]

\* createWorktree is called: it looks up the branch and fetches the base
CreateWorktree(c) ==
  /\ worktree.call[c].state = "idle"
  /\ \A d \in WorktreeCalls : d < c => worktree.call[d].state # "idle"
  /\ worktree' = [worktree EXCEPT !.call[c].state = "preparing"]
  /\ WorktreeFrame

\* createWorktree reaches withWorktreeLock: its creation is chained to the
\* queue and becomes the queue's new end
RequestLock(c) ==
  /\ worktree.call[c].state = "preparing"
  /\ worktree' = StartReady([worktree EXCEPT
                   !.call[c] = [state |-> "queued", prev |-> worktree.queue],
                   !.queue = c,
                   !.requested = Append(@, c)])
  /\ WorktreeFrame

\* 'git worktree add' ends, well or not; the creation chained to it starts
WorktreeAddEnds(c, ok) ==
  /\ worktree.call[c].state = "running"
  /\ worktree' = StartReady([worktree EXCEPT
                   !.call[c].state = IF ok THEN "done" ELSE "failed"])
  /\ WorktreeFrame

WorktreeNext ==
  \/ \E c \in WorktreeCalls : CreateWorktree(c)
  \/ \E c \in WorktreeCalls : RequestLock(c)
  \/ \E c \in WorktreeCalls, ok \in BOOLEAN : WorktreeAddEnds(c, ok)

WorktreeSpec == CmdInit /\ [][WorktreeNext]_vars

\* C33: at most one 'git worktree add' is in progress; the creations start
\* in the order in which they asked for the lock; and a creation waits only
\* while an earlier one is waiting or in progress, so that one that failed
\* does not hold the later ones back
C33_WorktreeCreationsSerialized ==
  /\ Cardinality({ c \in WorktreeCalls : worktree.call[c].state = "running" }) <= 1
  /\ Len(worktree.started) <= Len(worktree.requested)
  /\ \A i \in DOMAIN worktree.started : worktree.started[i] = worktree.requested[i]
  /\ \A i \in DOMAIN worktree.requested :
       worktree.call[worktree.requested[i]].state = "queued" =>
         /\ i > 1
         /\ worktree.call[worktree.requested[i - 1]].state \in {"queued", "running"}

C33_Witness ==
  /\ worktree.requested = <<2, 1, 3>>
  /\ worktree.call[2].state = "failed"
  /\ worktree.call[1].state = "running"
  /\ worktree.call[3].state = "queued"

\* ------------------------------------------------ the response file
\* what the agent may leave in the response file: text that is no JSON even
\* after repair, JSON that fails the schema, JSON that passes it
FileContents == {"garbage", "mismatch", "valid"}

FileFrame ==
  UNCHANGED <<agentVars, clockVars, cmdVars, poolVars, cliVars, logVars, instrVars,
              lineBuffer, worktree, agentTask,
              resultServer, waitState, ensurer, signals>>

\* readAgentResultFromFile on a file of the given content: without a schema
\* the trimmed text is the result, with one the text is parsed and validated
ReadOutcome(content, schema) ==
  IF content = "missing" THEN "threw"
  ELSE IF ~schema THEN "result"
  ELSE IF content = "valid" THEN "result"
  ELSE "threw"

\* variant: a failed unlink is thrown on to the caller
AfterUnlinkFatal(ok) == IF ok THEN "result" ELSE "threw"

\* removeResponseFile: a failure of unlink is caught and ignored
AfterUnlink(ok) == "result"

\* runAgentWithResponse in file mode: the agent command is started
StartFileRun(schema) ==
  /\ fileRun.pc = "idle"
  /\ fileRun' = [fileRun EXCEPT !.pc = "command", !.schema = schema]
  /\ FileFrame

\* the agent writes, or writes again, its response file
AgentWritesResponse(content) ==
  /\ fileRun.pc = "command"
  /\ Len(fileRun.written) < MaxFileWrites
  /\ fileRun' = [fileRun EXCEPT !.written = Append(@, content), !.file = content]
  /\ FileFrame

\* runCommandWithOutput with throwOnError returns, or throws for an exit
\* code other than 0; the read of the file starts after a return only
AgentCommandEnds(code) ==
  /\ fileRun.pc = "command"
  /\ fileRun' = [fileRun EXCEPT !.code = <<code>>,
                                !.pc = IF code = 0 THEN "read" ELSE "done",
                                !.outcome = IF code = 0 THEN "none" ELSE "threw"]
  /\ FileFrame

\* readFile resolves or rejects, the content is parsed and validated; the
\* run throws, or goes on to remove the file
ReadResponse ==
  /\ fileRun.pc = "read"
  /\ LET parsed == ReadOutcome(fileRun.file, fileRun.schema) IN
     fileRun' = [fileRun EXCEPT !.read = Append(@, fileRun.file),
                                !.pc = IF parsed = "result" THEN "unlink" ELSE "done",
                                !.outcome = IF parsed = "result" THEN "none" ELSE "threw"]
  /\ FileFrame

\* unlink resolves or rejects; the result is returned
UnlinkResponse(ok) ==
  /\ fileRun.pc = "unlink"
  /\ fileRun' = [fileRun EXCEPT !.unlinks = Append(@, ok),
                                !.file = IF ok THEN "missing" ELSE @,
                                !.pc = "done",
                                !.outcome = AfterUnlink(ok)]
  /\ FileFrame

FileNext ==
  \/ \E schema \in BOOLEAN : StartFileRun(schema)
  \/ \E content \in FileContents : AgentWritesResponse(content)
  \/ \E code \in {0, 1} : AgentCommandEnds(code)
  \/ ReadResponse
  \/ \E ok \in BOOLEAN : UnlinkResponse(ok)

FileSpec == CmdInit /\ [][FileNext]_vars

\* C34: the response file is read at most once and only after the agent
\* command has returned; its removal is tried exactly when the read and the
\* validation succeeded, and whether or not the removal works the run then
\* returns the result; a file that cannot be read or is not valid makes the
\* run throw after that one read
C34_ResponseFileReadOnce ==
  /\ Len(fileRun.read) <= 1
  /\ fileRun.read # <<>> => fileRun.code = <<0>>
  /\ (fileRun.pc = "done" /\ fileRun.code = <<0>>) => Len(fileRun.read) = 1
  /\ Len(fileRun.unlinks) <= 1
  /\ fileRun.pc = "done" =>
       /\ fileRun.unlinks # <<>> <=>
            /\ fileRun.read # <<>>
            /\ ReadOutcome(fileRun.read[1], fileRun.schema) = "result"
       /\ fileRun.unlinks # <<>> => fileRun.outcome = "result"
       /\ fileRun.unlinks = <<>> => fileRun.outcome = "threw"
  /\ (fileRun.pc # "idle" /\ fileRun.unlinks = <<>>) =>
       fileRun.file = IF fileRun.written = <<>> THEN "missing"
                      ELSE fileRun.written[Len(fileRun.written)]

C34_Witness ==
  /\ fileRun.pc = "done"
  /\ fileRun.schema
  /\ fileRun.written = <<"garbage", "valid">>
  /\ fileRun.unlinks = <<FALSE>>
  /\ fileRun.file = "valid"
  /\ fileRun.outcome = "result"

\* ------------------------------------------- the task of an agent call
\* The task that runNonInteractiveAgent hands to its pool, in callback mode:
\* await startResultServer, then inside try: ensure the instruction override,
\* run the agent until its result (runAgentLifecycle finalizes the process
\* before it returns or throws), and in finally: close the server, restore the
\* instructions.  A step of a call is possible only while it holds its slot.
TaskFrame ==
  UNCHANGED <<agentVars, clockVars, cmdVars, poolVars, cliVars, logVars, instrVars,
              lineBuffer, worktree, fileRun,
              resultServer, waitState, ensurer, signals>>

\* variant: the server is closed after the try block instead of in finally,
\* so that a failure leaves the task without closing it
PhaseAfterFailureNoFinally == "done"

\* a failure inside the try block enters the finally block
PhaseAfterFailure == "closing"

\* startResultServer resolves once the server listens; it is outside the try
\* block, so that a rejection ends the task at once (and no server is known)
StartResultServer(c, ok) ==
  /\ call[c].state = "holding"
  /\ agentTask[c].phase = "start"
  /\ agentTask' = [agentTask EXCEPT ![c] =
       IF ok THEN [@ EXCEPT !.phase = "ensure", !.server = "listening"]
       ELSE [@ EXCEPT !.phase = "done", !.failed = TRUE]]
  /\ TaskFrame

\* ensureTemporaryAgentInstructionsApplied returns or throws; after it
\* runAgentUntilResult spawns the agent process
EnsureEnds(c, ok) ==
  /\ call[c].state = "holding"
  /\ agentTask[c].phase = "ensure"
  /\ agentTask' = [agentTask EXCEPT ![c] =
       IF ok THEN [@ EXCEPT !.phase = "running", !.agent = "spawned"]
       ELSE [@ EXCEPT !.phase = PhaseAfterFailure, !.failed = TRUE]]
  /\ TaskFrame

\* runAgentUntilResult settles: runAgentLifecycle awaited finalizeAgentProcess
\* and returns the result or throws the failure
AgentRunEnds(c, ok) ==
  /\ call[c].state = "holding"
  /\ agentTask[c].phase = "running"
  /\ agentTask' = [agentTask EXCEPT ![c] =
       [@ EXCEPT !.phase = IF ok THEN "closing" ELSE PhaseAfterFailure,
                 !.agent = "finalized", !.failed = ~ok]]
  /\ TaskFrame

\* finally: await resultServer.close(); close resolves in every case
CloseResultServer(c) ==
  /\ call[c].state = "holding"
  /\ agentTask[c].phase = "closing"
  /\ agentTask' = [agentTask EXCEPT ![c] = [@ EXCEPT !.phase = "restoring",
                                                      !.server = "closed"]]
  /\ TaskFrame

\* finally: await restoreTemporaryAgentInstructions returns or throws
RestoreEnds(c, ok) ==
  /\ call[c].state = "holding"
  /\ agentTask[c].phase = "restoring"
  /\ agentTask' = [agentTask EXCEPT ![c] = [@ EXCEPT !.phase = "done",
                                                      !.failed = @ \/ ~ok]]
  /\ TaskFrame

\* the task's promise settles and the pool takes the slot back
TaskSettles(c) ==
  /\ agentTask[c].phase = "done"
  /\ AgentTaskEnds(c, ~agentTask[c].failed)

TaskNext ==
  \/ \E c \in AgentCalls, tool \in Tools : runNonInteractiveAgent(c, tool)
  \/ \E c \in AgentCalls, ok \in BOOLEAN : StartResultServer(c, ok)
  \/ \E c \in AgentCalls, ok \in BOOLEAN : EnsureEnds(c, ok)
  \/ \E c \in AgentCalls, ok \in BOOLEAN : AgentRunEnds(c, ok)
  \/ \E c \in AgentCalls : CloseResultServer(c)
  \/ \E c \in AgentCalls, ok \in BOOLEAN : RestoreEnds(c, ok)
  \/ \E c \in AgentCalls : TaskSettles(c)

TaskSpec == CmdInit /\ [][TaskNext]_vars

Methods == {"POST", "GET"}
Paths == {"/agent-result", "/other"}
ContentTypes == {"application/json", "text/plain"}
\* a body: JSON that passes the schema, JSON that fails it, text that
\* jsonrepair cannot turn into JSON
Bodies == {"conforming", "otherJson", "text"}
RequestIds == 1..MaxRequests

ServerFrame ==
  UNCHANGED <<agentVars, clockVars, cmdVars, poolVars, cliVars, logVars, instrVars,
              lineBuffer, worktree, fileRun, agentTask, waitState, ensurer, signals>>

\* parseResultBody: with a JSON content type the repaired body is parsed, any
\* other body is taken as text
parseResultBody(contentType, body) ==
  IF contentType = "application/json"
    THEN IF body = "text" THEN "error" ELSE body
    ELSE "text"

\* the status the 'end' handler answers with: 400 for a parse error or a
\* schema failure, 200 otherwise
StatusAtEnd(schema, contentType, body) ==
  LET parsed == parseResultBody(contentType, body) IN
  IF parsed = "error" THEN 400
  ELSE IF schema /\ parsed # "conforming" THEN 400
  ELSE 200

\* variant: a refused request rejects the result promise
PromiseAfterRefusalRejected(promise) == IF promise = "pending" THEN "rejected" ELSE promise

\* a request answered 405, 404 or 400 returns without a call of resolveResult
\* or rejectResult
PromiseAfterRefusal(promise) == promise

\* resolveResult / rejectResult: a settled promise keeps its state
SettlePromise(promise, to) == IF promise = "pending" THEN to ELSE promise

startResultServer(schema) ==
  /\ ~resultServer.started
  /\ resultServer' = [resultServer EXCEPT !.started = TRUE, !.schema = schema]
  /\ ServerFrame

\* createServer's handler: 405 for a method other than POST, 404 for another
\* path, otherwise the body is collected
RequestArrives(r, method, path, contentType, body) ==
  LET status == IF method # "POST" THEN 405
                ELSE IF path # "/agent-result" THEN 404 ELSE 0
      req == [state |-> IF status = 0 THEN "body" ELSE "answered",
              method |-> method, path |-> path, contentType |-> contentType,
              body |-> body, status |-> status, errored |-> FALSE]
  IN
  /\ resultServer.started
  /\ resultServer.reqs[r].state = "none"
  /\ \A q \in RequestIds : q < r => resultServer.reqs[q].state # "none"
  /\ resultServer' = [resultServer EXCEPT
       !.reqs[r] = req,
       !.promise = IF status = 0 THEN @ ELSE PromiseAfterRefusal(@)]
  /\ ServerFrame

\* req.on('end'): 400 for a body that cannot be parsed or fails the schema;
\* otherwise 200, resolveResult and server.close
RequestEnd(r) ==
  LET req == resultServer.reqs[r]
      status == StatusAtEnd(resultServer.schema, req.contentType, req.body)
  IN
  /\ req.state = "body"
  /\ resultServer' = [resultServer EXCEPT
       !.reqs[r].state = "closed",
       !.reqs[r].status = status,
       !.promise = IF status = 200 THEN SettlePromise(@, "resolved")
                   ELSE PromiseAfterRefusal(@)]
  /\ ServerFrame

\* req.on('error'): 400 unless the headers were sent, then rejectResult
RequestStreamError(r) ==
  LET req == resultServer.reqs[r] IN
  /\ req.state \in {"body", "answered"}
  /\ resultServer' = [resultServer EXCEPT
       !.reqs[r].state = "closed",
       !.reqs[r].errored = TRUE,
       !.reqs[r].status = IF req.status = 0 THEN 400 ELSE req.status,
       !.promise = SettlePromise(@, "rejected")]
  /\ ServerFrame

\* the unread stream of a request answered 405 or 404 ends without an error
RequestDiscarded(r) ==
  /\ resultServer.reqs[r].state = "answered"
  /\ resultServer' = [resultServer EXCEPT !.reqs[r].state = "closed"]
  /\ ServerFrame

\* server.on('error'): rejectResult
OnServerError ==
  /\ resultServer.started
  /\ resultServer.serverErrors = 0
  /\ resultServer' = [resultServer EXCEPT !.serverErrors = 1,
                                          !.promise = SettlePromise(@, "rejected")]
  /\ ServerFrame

ServerNext ==
  \/ \E schema \in BOOLEAN : startResultServer(schema)
  \/ \E r \in RequestIds, method \in Methods, path \in Paths,
        contentType \in ContentTypes, body \in Bodies :
       RequestArrives(r, method, path, contentType, body)
  \/ \E r \in RequestIds : RequestEnd(r)
  \/ \E r \in RequestIds : RequestStreamError(r)
  \/ \E r \in RequestIds : RequestDiscarded(r)
  \/ OnServerError

ServerSpec == CmdInit /\ [][ServerNext]_vars

\* request r gets its answer in this step and its stream has no error
Answered(r, statuses) ==
  /\ resultServer.reqs[r].status = 0
  /\ resultServer'.reqs[r].status \in statuses
  /\ ~resultServer'.reqs[r].errored

\* the stream of request r breaks in this step
StreamBreaks(r) == ~resultServer.reqs[r].errored /\ resultServer'.reqs[r].errored

\* the request was refused for the reason that belongs to its status
RefusedFor(req, schema) ==
  \/ req.status = 405 /\ req.method # "POST"
  \/ req.status = 404 /\ req.method = "POST" /\ req.path # "/agent-result"
  \/ /\ req.status = 400 /\ req.method = "POST" /\ req.path = "/agent-result"
     /\ \/ parseResultBody(req.contentType, req.body) = "error"
        \/ schema /\ parseResultBody(req.contentType, req.body) # "conforming"

\* C36: the result promise leaves "pending" only in a step that answers a POST
\* with 200, and then it is resolved, or in a step of a server error or of a
\* request-stream error, and then it is rejected; a step that answers a request
\* 405, 404 or 400 for its method, path, body or schema failure leaves it as it is
C36_SettledOnlyByAcceptOrError ==
  [][ /\ resultServer'.promise # resultServer.promise =>
          /\ resultServer.promise = "pending"
          /\ \/ /\ resultServer'.promise = "resolved"
                /\ \E r \in RequestIds : Answered(r, {200})
             \/ /\ resultServer'.promise = "rejected"
                /\ \/ \E r \in RequestIds : StreamBreaks(r)
                   \/ resultServer'.serverErrors > resultServer.serverErrors
      /\ \A r \in RequestIds :
           Answered(r, {405, 404, 400}) =>
             /\ resultServer'.promise = resultServer.promise
             /\ RefusedFor(resultServer'.reqs[r], resultServer.schema)
    ]_vars

\* with the promise pending, one request was refused for its method or path and
\* another for its body, and none of them broke
C36_Witness ==
  /\ resultServer.promise = "pending"
  /\ \E r, q \in RequestIds :
       /\ resultServer.reqs[r].status \in {405, 404} /\ ~resultServer.reqs[r].errored
       /\ resultServer.reqs[q].status = 400 /\ ~resultServer.reqs[q].errored
       /\ resultServer.reqs[q].state = "closed"

\* C37: a file-mode run whose response file exists when the agent process
\* exits reports the file as found: it does not throw the premature-exit
\* error.  (The file is written by the running agent only, so a file that
\* exists at any later time existed at the exit.)
C37_FileAtExitIsFound ==
  (cfg.responseMode = "file" /\ outcome = "premature") => ~fileExists

\* ------------------------------------------------- waiting for slots and locks
\* A task is one chain of awaits of the orchestrator.  It asks for a resource
\* by calling runNonInteractiveAgent, runCommandWithOutput,
\* runInitCommandSerially or withWorktreeLock; the function passed to that call
\* runs while the resource is held and the resource is given back when it
\* settles, so resources are given back in the reverse order of their taking.
TaskIds == 1..MaxTasks

WaitFrame ==
  UNCHANGED <<agentVars, clockVars, cmdVars, poolVars, cliVars, logVars, instrVars,
              lineBuffer, worktree, fileRun, agentTask, resultServer, ensurer,
              signals>>

\* variant: the function run in a command-pool slot calls runCommandWithOutput
RequestsWhileHoldingNested(r) ==
  IF r \in {"agent", "init", "command"} THEN {"command"} ELSE {}

\* what the function that runs while r is held may ask for: the task of an
\* agent call runs the agent with runCommandWithOutput (stdout and file mode),
\* the serialized init command is run with runCommandWithOutput;
\* runCommandWithOutputImmediate and git.raw ask for nothing
RequestsWhileHolding(r) ==
  IF r \in {"agent", "init"} THEN {"command"} ELSE {}

\* what a task may ask for next: anything when it holds nothing
MayRequest(held) ==
  IF held = <<>> THEN Resources ELSE RequestsWhileHolding(held[Len(held)])

HeldBy(t) == { waitState.task[t].held[i] : i \in DOMAIN waitState.task[t].held }
HoldersOf(r) == { t \in TaskIds : r \in HeldBy(t) }

\* the number of slots of r in use
InUse(r) ==
  LET RECURSIVE count(_)
      count(ts) == IF ts = {} THEN 0
                   ELSE LET t == CHOOSE x \in ts : TRUE IN
                        Cardinality({ i \in DOMAIN waitState.task[t].held :
                                        waitState.task[t].held[i] = r })
                          + count(ts \ {t})
  IN count(TaskIds)

\* limit 0 of the command pool: commandPromisePool is undefined, every command
\* runs at once
HasFreeSlot(r) == waitState.limit[r] = 0 \/ InUse(r) < waitState.limit[r]

\* main: setAgentConcurrency and setCommandConcurrency before any run starts
SetConcurrency(agentLimit, commandLimit) ==
  /\ ~waitState.configured
  /\ waitState' = [waitState EXCEPT !.configured = TRUE,
                                    !.limit["agent"] = agentLimit,
                                    !.limit["command"] = commandLimit]
  /\ WaitFrame

\* a task asks for r: it gets it at once when a slot is free and nobody waits
\* for one, otherwise it waits in line
RequestResource(t, r) ==
  LET me == waitState.task[t]
      free == HasFreeSlot(r) /\ waitState.queue[r] = <<>>
  IN
  /\ waitState.configured
  /\ me.waiting = "none"
  /\ me.held = <<>> => me.ops < MaxOps
  /\ r \in MayRequest(me.held)
  /\ waitState' = [waitState EXCEPT
       !.task[t] = [held |-> IF free THEN Append(me.held, r) ELSE me.held,
                    waiting |-> IF free THEN "none" ELSE r,
                    ops |-> IF me.held = <<>> THEN me.ops + 1 ELSE me.ops],
       !.queue[r] = IF free THEN @ ELSE Append(@, t)]
  /\ WaitFrame

\* the function run while the task's latest resource is held settles: the
\* resource is given back and goes to the task that waited longest for it
ReleaseResource(t) ==
  LET me == waitState.task[t]
      r == me.held[Len(me.held)]
      q == waitState.queue[r]
      rest == SubSeq(me.held, 1, Len(me.held) - 1)
  IN
  /\ me.waiting = "none"
  /\ me.held # <<>>
  /\ waitState' =
       IF q = <<>>
         THEN [waitState EXCEPT !.task[t].held = rest]
         ELSE [waitState EXCEPT
                 !.task = [u \in TaskIds |->
                    IF u = q[1] /\ u = t
                      THEN [me EXCEPT !.held = Append(rest, r), !.waiting = "none"]
                    ELSE IF u = q[1]
                      THEN [waitState.task[u] EXCEPT !.held = Append(@, r),
                                                     !.waiting = "none"]
                    ELSE IF u = t THEN [me EXCEPT !.held = rest]
                    ELSE waitState.task[u]],
                 !.queue[r] = Tail(q)]
  /\ WaitFrame

WaitNext ==
  \/ \E a \in 1..MaxAgentLimit, k \in 0..MaxLimit : SetConcurrency(a, k)
  \/ \E t \in TaskIds, r \in Resources : RequestResource(t, r)
  \/ \E t \in TaskIds : ReleaseResource(t)

WaitSpec == CmdInit /\ [][WaitNext]_vars

\* t waits for something that u holds
WaitsFor(t, u) ==
  /\ waitState.task[t].waiting # "none"
  /\ waitState.task[t].waiting \in HeldBy(u)

\* the tasks that t waits for, directly or through others
RECURSIVE ReachedFrom(_, _)
ReachedFrom(seen, n) ==
  IF n = 0 THEN seen
  ELSE ReachedFrom(seen \cup { u \in TaskIds : \E t \in seen : WaitsFor(t, u) }, n - 1)

WaitsForSelf(t) ==
  t \in ReachedFrom({ u \in TaskIds : WaitsFor(t, u) }, MaxTasks)

Waiting == { t \in TaskIds : waitState.task[t].waiting # "none" }

\* C38: a task that waits while it holds something holds only agent-pool slots
\* or the init-command lock and waits for a command-pool slot; no task waits
\* for itself through any chain of holders; and whenever a task waits, some
\* task that holds something waits for nothing, so that it can give it back
C38_WaitForRelationAcyclic ==
  /\ \A t \in Waiting :
       HeldBy(t) # {} =>
         /\ HeldBy(t) \subseteq {"agent", "init"}
         /\ waitState.task[t].waiting = "command"
  /\ \A t \in TaskIds : ~WaitsForSelf(t)
  /\ Waiting # {} => \E u \in TaskIds \ Waiting : HeldBy(u) # {}

\* a task that holds an agent-pool slot and one that holds the init-command
\* lock both wait for a slot of the command pool, which a third task holds
C38_Witness ==
  \E t, u, v \in TaskIds :
    /\ HeldBy(t) = {"agent"} /\ waitState.task[t].waiting = "command"
    /\ HeldBy(u) = {"init"} /\ waitState.task[u].waiting = "command"
    /\ HeldBy(v) = {"command"} /\ v \notin Waiting

\* ------------------------------------ ensureTemporaryAgentInstructionsApplied
\* The task of an agent call makes sure the override is in place while the
\* caller of apply and restore and the override's timer go on: the spec of
\* the override with the steps of ensure added.
EnsureFrame ==
  UNCHANGED <<agentVars, clockVars, cmdVars, poolVars, cliVars, logVars,
              lineBuffer, worktree, fileRun, agentTask, resultServer, waitState,
              signals>>

\* the file the loop of ensure reads after file i: the next one that has a
\* saved content, 0 when there is none
NextSaved(i) == NextEntry(overrideState.originalContents, i)

\* ensure goes on after file i, or returns
EnsureAdvance ==
  ensurer' = IF NextSaved(ensurer.i) = 0
               THEN [ensurer EXCEPT !.op = "idle", !.i = 0]
               ELSE [ensurer EXCEPT !.op = "read", !.i = NextSaved(ensurer.i)]

\* ensureTemporaryAgentInstructionsApplied is called: it returns at once
\* unless the override is active, otherwise the first read starts
CallEnsure ==
  /\ ensurer.op = "idle"
  /\ ensurer.calls < MaxEnsures
  /\ ensurer' =
       IF ~overrideState.active \/ overrideState.replacement = "none"
            \/ NextSaved(0) = 0
         THEN [ensurer EXCEPT !.calls = @ + 1]
         ELSE [ensurer EXCEPT !.calls = @ + 1, !.op = "read", !.i = NextSaved(0)]
  /\ UNCHANGED instrVars
  /\ EnsureFrame

\* readFileIfExists resolves in ensure: a missing file and a file that holds
\* the replacement are passed over; for another the write starts, which
\* throws when the override has no replacement any more
EnsureRead ==
  /\ ensurer.op = "read"
  /\ LET current == files[InstructionFilenames[ensurer.i]] IN
     IF current = "missing" \/ current = overrideState.replacement
       THEN EnsureAdvance
     ELSE IF overrideState.replacement = "none"
       THEN ensurer' = [ensurer EXCEPT !.op = "idle", !.i = 0, !.threw = TRUE]
     ELSE ensurer' = [ensurer EXCEPT !.op = "write"]
  /\ UNCHANGED instrVars
  /\ EnsureFrame

\* writeFile of the replacement resolves in ensure
EnsureWrite ==
  /\ ensurer.op = "write"
  /\ files' = [files EXCEPT ![InstructionFilenames[ensurer.i]] = Replacement]
  /\ EnsureAdvance
  /\ UNCHANGED <<initialFiles, overrideState, caller, restoring>>
  /\ EnsureFrame

EnsureNext ==
  \/ InstrNext
  \/ CallEnsure
  \/ EnsureRead
  \/ EnsureWrite

EnsureSpec == InstrInit /\ [][EnsureNext]_vars

\* no call of apply, ensure or restore is under way and no restore started by
\* the timer is
AllCompleted ==
  /\ caller.op = "idle"
  /\ ensurer.op = "idle"
  /\ restoring = 0

\* C39: once every call of apply, ensure and restore and every restore of the
\* timer has completed, an instruction file that holds the replacement text
\* has its original content recorded in the override state
C39_NoOriginalContentLost ==
  AllCompleted =>
    \A f \in Files :
      files[f] = Replacement => overrideState.originalContents[f] # "none"

\* ------------------------------------------ the orchestrator's signal handlers
\* main listens once for SIGINT and for SIGTERM with runCleanup; an active
\* instruction override adds a listener of its own for each, which takes
\* itself off, restores the instruction files and sends the signal again.  A
\* signal that finds no listener ends the process.
SignalFrame ==
  UNCHANGED <<agentVars, clockVars, cmdVars, poolVars, cliVars, logVars, instrVars,
              lineBuffer, worktree, fileRun, agentTask, resultServer, waitState,
              ensurer>>

\* let cleanupStarted of installSignalHandlers
CleanupStarted(state) == state.cleanupStarted

\* runCleanup up to its first await: nothing when the cleanup was started
\* before; with no worktree to remove onCleanup resolves at once and
\* process.exit(1) follows before any other event
runCleanup(state) ==
  IF CleanupStarted(state) THEN state
  ELSE IF state.worktrees = 0
    THEN [state EXCEPT !.cleanupStarted = TRUE, !.cleanups = @ + 1,
                       !.cleanup = "finished", !.alive = "exited"]
  ELSE [state EXCEPT !.cleanupStarted = TRUE, !.cleanups = @ + 1,
                     !.cleanup = "running", !.left = state.worktrees]

\* the override's handler: restoreTemporaryAgentInstructions starts
overrideHandler(state, g) == [state EXCEPT !.restores[g] = "running"]

\* the listeners of g run in the order of their registration; each of them is
\* taken off the signal as it runs
RECURSIVE RunListeners(_, _, _)
RunListeners(state, g, ls) ==
  IF ls = <<>> THEN state
  ELSE RunListeners(IF ls[1] = "runCleanup" THEN runCleanup(state)
                    ELSE overrideHandler(state, g),
                    g, Tail(ls))

\* the process gets signal g: its listeners run, and with none it ends
Deliver(state, g) ==
  IF state.listeners[g] = <<>>
    THEN [state EXCEPT !.alive = "killed"]
    ELSE RunListeners([state EXCEPT !.listeners[g] = <<>>], g, state.listeners[g])

\* a workflow run has created its worktree: activeWorktrees.add
WorktreeCreated ==
  /\ signals.alive = "alive"
  /\ ~signals.cleanupStarted
  /\ signals.worktrees < MaxWorktrees
  /\ signals' = [signals EXCEPT !.worktrees = @ + 1]
  /\ SignalFrame

\* applyTemporaryAgentInstructions made the override active:
\* registerProcessHandlers adds the override's listener to both signals, once
registerProcessHandlers ==
  /\ signals.alive = "alive"
  /\ ~signals.handlersRegistered
  /\ signals' = [signals EXCEPT
       !.handlersRegistered = TRUE,
       !.listeners = [g \in CliSignals |-> Append(@[g], "override")]]
  /\ SignalFrame

\* the user or the system sends SIGINT or SIGTERM
SignalArrives(g) ==
  /\ signals.alive = "alive"
  /\ signals.received < MaxSignals
  /\ signals' = Deliver([signals EXCEPT !.received = @ + 1], g)
  /\ SignalFrame

\* removeWorktree settles for one worktree; after the last one runCleanup
\* calls process.exit(1)
CleanupStep ==
  /\ signals.alive = "alive"
  /\ signals.cleanup = "running"
  /\ signals' = IF signals.left > 1
                  THEN [signals EXCEPT !.left = @ - 1]
                  ELSE [signals EXCEPT !.left = 0, !.cleanup = "finished",
                                       !.alive = "exited"]
  /\ SignalFrame

\* the restore started by the override's handler settles: finally sends the
\* signal to the process again
RestoreSettles(g) ==
  /\ signals.alive = "alive"
  /\ signals.restores[g] = "running"
  /\ signals' = Deliver([signals EXCEPT !.restores[g] = "settled"], g)
  /\ SignalFrame

SignalNext ==
  \/ WorktreeCreated
  \/ registerProcessHandlers
  \/ \E g \in CliSignals : SignalArrives(g)
  \/ CleanupStep
  \/ \E g \in CliSignals : RestoreSettles(g)

SignalSpec == CmdInit /\ [][SignalNext]_vars

\* C40: after SIGINT or SIGTERM the cleanup of the worktrees is started at
\* most once, and the orchestrator does not end while a cleanup that was
\* started has not finished, whether the override's listener is registered
\* for the signal or not
C40_CleanupOnceAndFinishedBeforeExit ==
  /\ signals.cleanups <= 1
  /\ signals.alive # "alive" => signals.cleanup # "running"

====
